---- MODULE Spec2Model ----
(***************************************************************************)
(* Model of the resume analysis edge function                              *)
(* (supabase/functions/analyze-resume/index.ts, lines 1-321).              *)
(*                                                                         *)
(* Texts are TLA+ strings read as sequences of characters.  Three          *)
(* characters of the model's alphabet stand for non-ASCII characters of    *)
(* the source, which a TLA+ string literal cannot hold:                    *)
(*    "*"  a bullet glyph, one of U+2022 U+00B7 U+25CF U+25AA U+25E6       *)
(*    "_"  the no-break space U+00A0                                       *)
(*    "~"  an en dash U+2013 or an em dash U+2014                          *)
(* Numbers are fixed-point, in tenths: 25 is the JavaScript number 2.5.    *)
(***************************************************************************)
EXTENDS Integers, Sequences, FiniteSets, TLC

VARIABLES
    cleanPc, cleanIn, cleanOut, cleanTwice,   \* the normalizer on its own
    expPc, expText, expNow, expOut,           \* the experience estimate on its own
    \* one invocation of the serve handler (index.ts:246-321)
    pc,               \* where the handler is: start, download, fetch, extract,
                      \* estimate, infer, done
    env,              \* supabaseAdmin and OPENAI_API_KEY configured or not
    req,              \* the request: method and JSON body
    source,           \* the download in flight: bucket and path, or url
    fetchOutcome,     \* what the download call came back with: "", "ok",
                      \* "storage-error", "http-error" or "network-error"
    buffer, contentType, finalFileName, text, experienceYears,
    aiArgs,           \* the arguments analyzeWithAI was called with
    aiReply,          \* what the inference service answered
    analysis,         \* what analyzeWithAI returned or threw
    response,         \* the Response returned: status and parsed JSON body
    calls,            \* how often each stage was entered
    failed,           \* the stage whose error the catch block received, or ""
    suspended,        \* which of two invocations runs, and the locals of the other
    job_applications, \* the rows of public.job_applications
    applying,         \* the calls of handleApplyToJob in flight
    upload,           \* one call of handleFileUpload and the component's flags
    resumes,          \* the rows of public.resumes
    route             \* the location, the auth state and what ProtectedRoute shows

cleanVars == <<cleanPc, cleanIn, cleanOut, cleanTwice>>

expVars == <<expPc, expText, expNow, expOut>>

handlerVars ==
    <<pc, env, req, source, fetchOutcome, buffer, contentType, finalFileName, text,
      experienceYears, aiArgs, aiReply, analysis, response, calls, failed>>

\* a second invocation of the handler, suspended while the first one runs
pairVars == <<suspended>>

\* handleApplyToJob (JobSeekerDashboard.tsx:171-211) and its table
applyVars == <<job_applications, applying>>

\* handleFileUpload (JobSeekerDashboard.tsx:91-169) and its table
uploadVars == <<upload, resumes>>

\* ProtectedRoute and the router around it
routeVars == <<route>>

otherVars == <<pairVars, applyVars, uploadVars, routeVars>>

vars == <<cleanVars, expVars, handlerVars, otherVars>>

----------------------------------------------------------------------------
(* Character classes and string helpers                                    *)

Ch(s, i) == SubSeq(s, i, i)

\* \s of a JavaScript regular expression, restricted to the model's alphabet
WhiteSpace == {" ", "\n", "\t", "\r", "\f", "_"}

TabCr == {"\t", "\r"}

Nbsp == {"_"}

Newline == {"\n"}

BulletGlyphs == {"*"}

\* the least element of a non-empty set of numbers
Least(S) == CHOOSE x \in S : \A y \in S : x <= y

\* the greatest element of a non-empty set of numbers
Greatest(S) == CHOOSE x \in S : \A y \in S : x >= y

\* the first index at or after i whose character is outside class,
\* Len(s) + 1 when the run reaches the end of s
RunEnd(s, i, class) ==
    Least({j \in i..Len(s) : Ch(s, j) \notin class} \cup {Len(s) + 1})

\* the first index of the run of class characters that holds index i
RunStart(s, i, class) ==
    Greatest({j \in 1..i : Ch(s, j) \notin class} \cup {0}) + 1

RECURSIVE ConcatMap(_, _, _)
\* F(lo) \o F(lo + 1) \o ... \o F(hi), by halves
ConcatMap(F(_), lo, hi) ==
    IF lo > hi THEN ""
    ELSE IF lo = hi THEN F(lo)
    ELSE LET mid == (lo + hi) \div 2
         IN  ConcatMap(F, lo, mid) \o ConcatMap(F, mid + 1, hi)

\* s.replace(/[class]{min,}/g, rep): a maximal run of at least min
\* characters of class becomes rep
ReplaceRuns(s, class, min, rep) ==
    LET F(i) ==
            IF Ch(s, i) \notin class THEN Ch(s, i)
            ELSE IF RunEnd(s, i, class) - RunStart(s, i, class) < min THEN Ch(s, i)
            ELSE IF RunStart(s, i, class) = i THEN rep ELSE ""
    IN  ConcatMap(F, 1, Len(s))

\* s.replace(/[class]/g, rep): every character on its own
ReplaceEach(s, class, rep) ==
    LET F(i) == IF Ch(s, i) \in class THEN rep ELSE Ch(s, i)
    IN  ConcatMap(F, 1, Len(s))

\* s.replace(/-\s+/g, "-"): the white space that follows a hyphen goes
JoinHyphen(s) ==
    LET F(i) ==
            IF Ch(s, i) \notin WhiteSpace THEN Ch(s, i)
            ELSE LET b == RunStart(s, i, WhiteSpace)
                 IN  IF b > 1 /\ Ch(s, b - 1) = "-" THEN "" ELSE Ch(s, i)
    IN  ConcatMap(F, 1, Len(s))

\* String.prototype.trim
Trim(s) ==
    SubSeq(s, RunEnd(s, 1, WhiteSpace),
              Greatest({j \in 1..Len(s) : Ch(s, j) \notin WhiteSpace} \cup {0}))

----------------------------------------------------------------------------
(* cleanExtractedText, index.ts:49-62: the seven steps in source order     *)

cleanExtractedText(t) ==
    LET s1 == ReplaceRuns(t, TabCr, 1, " ")
        s2 == ReplaceEach(s1, Nbsp, " ")
        s3 == ReplaceRuns(s2, WhiteSpace, 2, " ")
        s4 == JoinHyphen(s3)
        s5 == ReplaceEach(s4, BulletGlyphs, "-")
        s6 == ReplaceRuns(s5, Newline, 3, "\n\n")
    IN  Trim(s6)

----------------------------------------------------------------------------
(* computeExperienceYears, index.ts:137-184                                *)

Digits == {"0", "1", "2", "3", "4", "5", "6", "7", "8", "9"}

\* [-–—] of the two date patterns
Dashes == {"-", "~"}

UpperLetters == "ABCDEFGHIJKLMNOPQRSTUVWXYZ"

LowerLetters == "abcdefghijklmnopqrstuvwxyz"

\* [a-z] under the i flag
Letters == {Ch(LowerLetters, i) : i \in 1..26} \cup {Ch(UpperLetters, i) : i \in 1..26}

\* String.prototype.toLowerCase on one character
LowerCh(c) ==
    IF \E i \in 1..26 : Ch(UpperLetters, i) = c
    THEN Ch(LowerLetters, CHOOSE i \in 1..26 : Ch(UpperLetters, i) = c)
    ELSE c

\* String.prototype.toLowerCase
LowerStr(s) ==
    LET F(i) == LowerCh(Ch(s, i))
    IN  ConcatMap(F, 1, Len(s))

\* the n characters of s from index i, lower-cased (fewer at the end of s)
LowerAt(s, i, n) ==
    LowerStr(SubSeq(s, i, IF i + n - 1 > Len(s) THEN Len(s) ELSE i + n - 1))

DigitVal(c) == CHOOSE d \in 0..9 : Ch("0123456789", d + 1) = c

RECURSIVE parseInt(_)
\* parseInt of a string of digits ("" is never passed)
parseInt(s) ==
    IF Len(s) = 1 THEN DigitVal(s)
    ELSE 10 * parseInt(SubSeq(s, 1, Len(s) - 1)) + DigitVal(Ch(s, Len(s)))

\* \d{4} at index i
Year4At(s, i) == i + 3 <= Len(s) /\ \A k \in 0..3 : Ch(s, i + k) \in Digits

\* monthMap, index.ts:139, on the three-letter prefixes the patterns capture
monthMap ==
    [m \in {"jan", "feb", "mar", "apr", "may", "jun",
            "jul", "aug", "sep", "oct", "nov", "dec"} |->
        CASE m = "jan" -> 0  [] m = "feb" -> 1  [] m = "mar" -> 2
          [] m = "apr" -> 3  [] m = "may" -> 4  [] m = "jun" -> 5
          [] m = "jul" -> 6  [] m = "aug" -> 7  [] m = "sep" -> 8
          [] m = "oct" -> 9  [] m = "nov" -> 10 [] m = "dec" -> 11]

MonthPrefixes == DOMAIN monthMap

\* a RegExpExecArray: the named groups ("" for a group that did not take
\* part) and next, the index after the match (lastIndex + 1)
NoMatch == [ok |-> FALSE, sm |-> "", sy |-> "", em |-> "", ey |-> "", next |-> 0]

\* pattern 0 (index.ts:144) anchored at index i:
\* month[a-z]*\s+YYYY\s*dash\s*(present|current|month)[a-z]*\s*(YYYY)?
MonthRangeAt(s, i) ==
    IF LowerAt(s, i, 3) \notin MonthPrefixes THEN NoMatch
    ELSE
    LET a == RunEnd(s, i + 3, Letters)
        b == RunEnd(s, a, WhiteSpace)
    IN  IF b = a \/ ~Year4At(s, b) THEN NoMatch
        ELSE
        LET c == RunEnd(s, b + 4, WhiteSpace)
        IN  IF c > Len(s) \/ Ch(s, c) \notin Dashes THEN NoMatch
            ELSE
            LET d  == RunEnd(s, c + 1, WhiteSpace)
                em == IF LowerAt(s, d, 7) \in {"present", "current"}
                      THEN LowerAt(s, d, 7)
                      ELSE IF LowerAt(s, d, 3) \in MonthPrefixes
                           THEN LowerAt(s, d, 3) ELSE ""
            IN  IF em = "" THEN NoMatch
                ELSE
                LET e1 == RunEnd(s, d + Len(em), Letters)
                    e2 == RunEnd(s, e1, WhiteSpace)
                IN  [ok |-> TRUE,
                     sm |-> LowerAt(s, i, 3),
                     sy |-> SubSeq(s, b, b + 3),
                     em |-> em,
                     ey |-> IF Year4At(s, e2) THEN SubSeq(s, e2, e2 + 3) ELSE "",
                     next |-> IF Year4At(s, e2) THEN e2 + 4 ELSE e2]

\* pattern 1 (index.ts:145) anchored at index i: YYYY\s*dash\s*(present|current|YYYY)
YearRangeAt(s, i) ==
    IF ~Year4At(s, i) THEN NoMatch
    ELSE
    LET c == RunEnd(s, i + 4, WhiteSpace)
    IN  IF c > Len(s) \/ Ch(s, c) \notin Dashes THEN NoMatch
        ELSE
        LET d == RunEnd(s, c + 1, WhiteSpace)
        IN  IF LowerAt(s, d, 7) \in {"present", "current"}
            THEN [ok |-> TRUE, sm |-> "", sy |-> SubSeq(s, i, i + 3), em |-> "",
                  ey |-> LowerAt(s, d, 7), next |-> d + 7]
            ELSE IF Year4At(s, d)
                 THEN [ok |-> TRUE, sm |-> "", sy |-> SubSeq(s, i, i + 3), em |-> "",
                       ey |-> SubSeq(s, d, d + 3), next |-> d + 4]
                 ELSE NoMatch

patterns == <<"monthRange", "yearRange">>

MatchAt(p, s, i) == IF p = "monthRange" THEN MonthRangeAt(s, i) ELSE YearRangeAt(s, i)

RECURSIVE ExecAll(_, _, _)
\* the matches of `while ((m = p.exec(text)) !== null)` from index i on:
\* leftmost match first, the search resumes after the match
ExecAll(p, s, i) ==
    LET at == {j \in i..Len(s) : MatchAt(p, s, j).ok}
    IN  IF at = {} THEN <<>>
        ELSE LET m == MatchAt(p, s, Least(at))
             IN  <<m>> \o ExecAll(p, s, m.next)

\* new Date(year, month, 1) as a month count; a year of 0..99 means 1900 + year
DateOf(year, month) == (IF year <= 99 THEN 1900 + year ELSE year) * 12 + month

\* lines 151-171: the start and end dates of one match; now is new Date()
RangeOf(m, now) ==
    IF m.sm # ""
    THEN LET sy == parseInt(m.sy)
         IN  [start |-> DateOf(sy, monthMap[m.sm]),
              end   |-> IF m.em \in {"present", "current"} THEN now
                        ELSE DateOf(IF m.ey # "" THEN parseInt(m.ey) ELSE sy,
                                    monthMap[m.em])]
    ELSE [start |-> DateOf(parseInt(m.sy), 0),
          end   |-> IF m.ey \in {"present", "current"} THEN now
                    ELSE DateOf(parseInt(m.ey), 0)]

RECURSIVE PushValidSwapping(_, _)
\* line 172 with a range whose end precedes its start turned round and kept
PushValidSwapping(ms, now) ==
    IF ms = <<>> THEN <<>>
    ELSE LET r == RangeOf(Head(ms), now)
         IN  (IF r.end >= r.start THEN <<r>>
              ELSE <<[start |-> r.end, end |-> r.start]>>)
                 \o PushValidSwapping(Tail(ms), now)

RECURSIVE PushValid(_, _)
\* line 172: if (start && end && end >= start) ranges.push({ start, end })
PushValid(ms, now) ==
    IF ms = <<>> THEN <<>>
    ELSE LET r == RangeOf(Head(ms), now)
         IN  (IF r.end >= r.start THEN <<r>> ELSE <<>>) \o PushValid(Tail(ms), now)

\* the ranges array after the loop over both patterns (lines 148-174)
RangesOf(txt, now) ==
    PushValid(ExecAll(patterns[1], txt, 1) \o ExecAll(patterns[2], txt, 1), now)

RECURSIVE Reduce(_, _, _)
\* Array.prototype.reduce without an initial value, on a non-empty array
Reduce(f(_, _), acc, rest) ==
    IF rest = <<>> THEN acc ELSE Reduce(f, f(acc, Head(rest)), Tail(rest))

EarlierStart(a, b) == IF a.start < b.start THEN a ELSE b

LaterEnd(a, b) == IF a.end > b.end THEN a ELSE b

\* Math.round((months / 12) * 10) / 10, in tenths
RoundToTenths(months) == (10 * months + 6) \div 12

RECURSIVE SumOfLengths(_)
SumOfLengths(ranges) ==
    IF ranges = <<>> THEN 0
    ELSE (Head(ranges).end - Head(ranges).start) + SumOfLengths(Tail(ranges))

\* the estimate as the sum of the lengths of the ranges
SpanOfRangesSummed(ranges) ==
    LET years == RoundToTenths(SumOfLengths(ranges))
    IN  IF years > 0 THEN years ELSE 0

\* lines 175-179
SpanOfRanges(ranges) ==
    LET earliest == Reduce(EarlierStart, Head(ranges), Tail(ranges)).start
        latest   == Reduce(LaterEnd, Head(ranges), Tail(ranges)).end
        months   == latest - earliest
        years    == RoundToTenths(months)
    IN  IF years > 0 THEN years ELSE 0

computeExperienceYears(txt, now) ==
    LET ranges == RangesOf(txt, now)
    IN  IF Len(ranges) = 0 THEN 0 ELSE SpanOfRanges(ranges)

----------------------------------------------------------------------------
(* JavaScript values, as tagged records.  A number is held in tenths.      *)

Undefined == [t |-> "undefined"]

Null == [t |-> "null"]

Bool(b) == [t |-> "boolean", b |-> b]

Num(n) == [t |-> "number", n |-> n]

\* a number that is not finite (JSON.parse("1e999") is Infinity)
Infinite == [t |-> "number", inf |-> TRUE]

Str(s) == [t |-> "string", s |-> s]

Arr(a) == [t |-> "array", a |-> a]

\* an object: o is a function from its own enumerable keys to their values
Obj(o) == [t |-> "object", o |-> o]

EmptyObject == [k \in {} |-> Null]

IsFiniteNumber(v) == v.t = "number" /\ "n" \in DOMAIN v

\* ToBoolean: the falsy values are undefined, null, 0, "" and false
Truthy(v) ==
    ~ \/ v.t \in {"undefined", "null"}
      \/ v = Num(0)
      \/ v = Str("")
      \/ v = Bool(FALSE)

\* o[k], undefined when o has no such key
Get(o, k) == IF k \in DOMAIN o THEN o[k] ELSE Undefined

\* o[k] = v
Put(o, k, v) == [x \in DOMAIN o \cup {k} |-> IF x = k THEN v ELSE o[x]]

RECURSIVE NatToString(_)
NatToString(k) ==
    IF k < 10 THEN Ch("0123456789", k + 1)
    ELSE NatToString(k \div 10) \o Ch("0123456789", (k % 10) + 1)

\* Number.prototype.toString of a finite number given in tenths
NumberToString(n) ==
    LET a == IF n < 0 THEN 0 - n ELSE n
    IN  (IF n < 0 THEN "-" ELSE "")
            \o NatToString(a \div 10)
            \o (IF a % 10 = 0 THEN "" ELSE "." \o NatToString(a % 10))

RECURSIVE ToStringJS(_)
RECURSIVE JoinJS(_)
\* Array.prototype.join(","): null and undefined elements give ""
JoinJS(a) ==
    IF a = <<>> THEN ""
    ELSE (IF Head(a).t \in {"undefined", "null"} THEN "" ELSE ToStringJS(Head(a)))
             \o (IF Len(a) = 1 THEN "" ELSE "," \o JoinJS(Tail(a)))

\* `${v}`
ToStringJS(v) ==
    CASE v.t = "string"    -> v.s
      [] v.t = "undefined" -> "undefined"
      [] v.t = "null"      -> "null"
      [] v.t = "boolean"   -> IF v.b THEN "true" ELSE "false"
      [] v.t = "number"    -> IF IsFiniteNumber(v) THEN NumberToString(v.n) ELSE "Infinity"
      [] v.t = "array"     -> JoinJS(v.a)
      [] v.t = "object"    -> "[object Object]"

\* own enumerable properties of an array: "0", "1", ...
IndexProperties(a) ==
    [k \in {NatToString(i - 1) : i \in 1..Len(a)} |->
        a[CHOOSE i \in 1..Len(a) : NatToString(i - 1) = k]]

Min(a, b) == IF a < b THEN a ELSE b

Max(a, b) == IF a > b THEN a ELSE b

\* Math.round of a number given in tenths; the result is a whole number
MathRound(n) == (n + 5) \div 10

----------------------------------------------------------------------------
(* analyzeWithAI, index.ts:186-244                                         *)

\* Math.min(95, Math.max(50, 60 + Math.round(years * 2))), lines 222 and 240
AtsFromYears(years) == Min(950, Max(500, 600 + 10 * MathRound(2 * years)))

\* the profile built in the catch of JSON.parse, lines 218-233
ParseFallback(experienceYearsHint) ==
    [skills           |-> Arr(<<>>),
     experience_years |-> Num(experienceYearsHint),
     job_role         |-> Str("Professional"),
     ats_score        |-> Num(AtsFromYears(experienceYearsHint)),
     summary          |-> Arr(<<Str("Experienced professional with domain expertise."),
                                Str("Proficient with relevant tools and methodologies."),
                                Str("Delivered measurable outcomes across projects."),
                                Str("Cross-functional collaboration on key initiatives."),
                                Str("Continuous improvement and learning mindset.")>>),
     recommendations  |-> Arr(<<>>),
     missing_skills   |-> Arr(<<>>),
     strength_areas   |-> Arr(<<>>)]

\* The reply text of the inference service is held by its structure:
\*   val   the JSON value written in it, or Garbage for text that is not JSON
\*         (prose, an empty reply, braces around something that is not JSON)
\*   wrap  TRUE when prose or a code fence without braces surrounds the value
Garbage == [t |-> "garbage"]

Content(wrap, val) == [wrap |-> wrap, val |-> val]

\* lines 209-215: trim, take the span from the first "{" to the last "}" when
\* there is one, JSON.parse.  ok = FALSE when JSON.parse throws.
ParseContent(content) ==
    LET v == content.val
    IN  CASE v.t = "garbage" -> [ok |-> FALSE, value |-> Undefined]
          [] v.t = "object"  -> [ok |-> TRUE, value |-> v]
          [] v.t = "array" /\ \E i \in 1..Len(v.a) : v.a[i].t = "object" ->
                \* the braces of the elements are matched, not the brackets
                IF Len(v.a) = 1 THEN [ok |-> TRUE, value |-> v.a[1]]
                ELSE [ok |-> FALSE, value |-> Undefined]
          [] OTHER ->
                IF content.wrap THEN [ok |-> FALSE, value |-> Undefined]
                ELSE [ok |-> TRUE, value |-> v]

RECURSIVE TrimEach(_)
\* .map((s) => `${s}`.trim()).filter(Boolean)
TrimEach(a) ==
    IF a = <<>> THEN <<>>
    ELSE LET s == Trim(ToStringJS(Head(a)))
         IN  (IF s = "" THEN <<>> ELSE <<Str(s)>>) \o TrimEach(Tail(a))

RECURSIVE Unique(_, _)
\* Array.from(new Set(a)): the first occurrence of every value, in order
Unique(a, seen) ==
    IF a = <<>> THEN <<>>
    ELSE IF Head(a) \in seen THEN Unique(Tail(a), seen)
         ELSE <<Head(a)>> \o Unique(Tail(a), seen \cup {Head(a)})

\* slice(0, n) of an array
Slice(a, n) == SubSeq(a, 1, Min(n, Len(a)))

MaxSummaryLines == 5

\* v || []
OrEmptyArray(v) == IF Truthy(v) THEN v ELSE Arr(<<>>)

\* line 237 with the Set built before the entries are trimmed
SanitizeSkillsSetFirst(skills) == Arr(TrimEach(Unique(OrEmptyArray(skills).a, {})))

\* line 237; callable only when OrEmptyArray(skills) is an array
SanitizeSkills(skills) == Arr(Unique(TrimEach(OrEmptyArray(skills).a), {}))

\* line 238; callable only when OrEmptyArray(summary) is an array
SanitizeSummary(summary) == Arr(TrimEach(Slice(OrEmptyArray(summary).a, MaxSummaryLines)))

\* line 239 without the fallback to the hint
SanitizeExperienceUnchecked(experience_years, experienceYearsHint) == experience_years

\* line 239
SanitizeExperience(experience_years, experienceYearsHint) ==
    IF IsFiniteNumber(experience_years) THEN experience_years ELSE Num(experienceYearsHint)

\* (v || 0) where a number is expected
OrZero(v) == IF IsFiniteNumber(v) THEN v.n ELSE 0

\* line 240; experience_years is the value line 239 left
SanitizeAts(ats_score, experience_years) ==
    IF IsFiniteNumber(ats_score) THEN ats_score
    ELSE Num(AtsFromYears(OrZero(experience_years)))

\* line 241
SanitizeJobRole(job_role) ==
    Str(Trim(ToStringJS(IF Truthy(job_role) THEN job_role ELSE Str("Professional"))))

Returned(v) == [threw |-> FALSE, message |-> "", value |-> v]

Thrown(msg) == [threw |-> TRUE, message |-> msg, value |-> Undefined]

\* lines 236-243 on the parsed value.  An array keeps its elements as index
\* properties; the properties assigned to it are carried like an object's.
Sanitize(parsed, experienceYearsHint) ==
    IF parsed.t \in {"undefined", "null"}
    THEN Thrown("Cannot read properties of null (reading 'skills')")
    ELSE IF parsed.t \in {"number", "string", "boolean"}
    THEN \* module code is strict: assigning a property to a primitive throws
         Thrown("Cannot create property 'skills' on " \o parsed.t)
    ELSE
    LET o == IF parsed.t = "array" THEN IndexProperties(parsed.a) ELSE parsed.o
    IN  IF OrEmptyArray(Get(o, "skills")).t # "array"
        THEN Thrown("(parsed.skills || []).map is not a function")
        ELSE IF OrEmptyArray(Get(o, "summary")).t # "array"
        THEN Thrown("(parsed.summary || []).slice(...).map is not a function")
        ELSE
        LET o1 == Put(o, "skills", SanitizeSkills(Get(o, "skills")))
            o2 == Put(o1, "summary", SanitizeSummary(Get(o, "summary")))
            o3 == Put(o2, "experience_years",
                      SanitizeExperience(Get(o, "experience_years"), experienceYearsHint))
            o4 == Put(o3, "ats_score",
                      SanitizeAts(Get(o, "ats_score"), o3["experience_years"]))
            o5 == Put(o4, "job_role", SanitizeJobRole(Get(o, "job_role")))
        IN  Returned(Obj(o5))

\* the reply checks with a reply that is not 2xx taken for an unparseable one
ParseReplyLenient(reply, experienceYearsHint) ==
    CASE reply.kind = "network" -> Thrown("error sending request")
      [] reply.kind = "http"    -> Returned(Obj(ParseFallback(experienceYearsHint)))
      [] reply.kind = "body"    -> Thrown("Unexpected end of JSON input")
      [] reply.kind = "ok"      ->
            LET p == ParseContent(reply.content)
            IN  Returned(IF p.ok THEN p.value ELSE Obj(ParseFallback(experienceYearsHint)))

\* What the call to the inference service does: the fetch rejects
\* ("network"), the reply is not 2xx ("http"), the reply body is not JSON
\* ("body"), or the reply carries a content text ("ok").
\* lines 205-234: the checks on the reply and the parse with its fallback
ParseReply(reply, experienceYearsHint) ==
    CASE reply.kind = "network" -> Thrown("error sending request")
      [] reply.kind = "http"    -> Thrown("OpenAI API error: " \o reply.status)
      [] reply.kind = "body"    -> Thrown("Unexpected end of JSON input")
      [] reply.kind = "ok"      ->
            LET p == ParseContent(reply.content)
            IN  Returned(IF p.ok THEN p.value ELSE Obj(ParseFallback(experienceYearsHint)))

\* analyzeWithAI from the reply of its fetch on (lines 205-244)
analyzeWithAI(reply, experienceYearsHint) ==
    LET p == ParseReply(reply, experienceYearsHint)
    IN  IF p.threw THEN p ELSE Sanitize(p.value, experienceYearsHint)

----------------------------------------------------------------------------
(* Type detection and text extraction, index.ts:43-47 and 99-134           *)

EndsWith(s, suffix) ==
    Len(s) >= Len(suffix) /\ SubSeq(s, Len(s) - Len(suffix) + 1, Len(s)) = suffix

StartsWith(s, prefix) == Len(s) >= Len(prefix) /\ SubSeq(s, 1, Len(prefix)) = prefix

Includes(s, sub) ==
    \E i \in 1..(Len(s) - Len(sub) + 1) : SubSeq(s, i, i + Len(sub) - 1) = sub

DocxMime == "application/vnd.openxmlformats-officedocument.wordprocessingml.document"

\* an undefined contentType is held as "": lines 90 and 96 turn "" into undefined
isPdf(fileName, ctype) ==
    EndsWith(LowerStr(fileName), ".pdf") \/ Includes(ctype, "pdf")

isDocx(fileName, ctype) ==
    EndsWith(LowerStr(fileName), ".docx") \/ ctype = DocxMime

\* A buffer is held by what the parsers find in it: format is "pdf", "docx",
\* "plain" or "empty" (no bytes), parts the page texts of a PDF, the
\* paragraphs of a DOCX or the lines of a plain text.
Buffer(format, parts) == [format |-> format, parts |-> parts]

RECURSIVE JoinAfter(_, _)
\* every part followed by sep
JoinAfter(parts, sep) ==
    IF parts = <<>> THEN "" ELSE Head(parts) \o sep \o JoinAfter(Tail(parts), sep)

\* lines 99-110; pdfjs rejects bytes that are not a PDF
extractPdf(buf) ==
    IF buf.format # "pdf" THEN Thrown("Invalid PDF structure.")
    ELSE Returned(cleanExtractedText(JoinAfter(buf.parts, "\n")))

\* lines 112-115; mammoth rejects bytes that are not a zip archive and
\* writes two newlines after every paragraph
extractDocx(buf) ==
    IF buf.format # "docx" THEN Thrown("Can't find end of central directory")
    ELSE Returned(cleanExtractedText(JoinAfter(buf.parts, "\n\n")))

\* TextDecoder("utf-8", { fatal: false }).decode: the text of a plain file,
\* the leading signature of a binary one
DecodeUtf8(buf) ==
    CASE buf.format = "plain" -> JoinAfter(buf.parts, "\n")
      [] buf.format = "pdf"   -> "%PDF-1.7"
      [] buf.format = "docx"  -> "PK"
      [] OTHER                   -> ""

\* lines 117-134 with a parser's exception answered by the plain-text path
extractTextFallingThrough(buf, fileName, ctype) ==
    LET r == IF isPdf(fileName, ctype) THEN extractPdf(buf)
             ELSE IF isDocx(fileName, ctype) THEN extractDocx(buf)
             ELSE Returned(cleanExtractedText(DecodeUtf8(buf)))
    IN  IF r.threw THEN cleanExtractedText(DecodeUtf8(buf)) ELSE r.value

\* lines 117-134
extractText(buf, fileName, ctype) ==
    LET r == IF isPdf(fileName, ctype) THEN extractPdf(buf)
             ELSE IF isDocx(fileName, ctype) THEN extractDocx(buf)
             ELSE Returned(cleanExtractedText(DecodeUtf8(buf)))
    IN  IF r.threw THEN "" ELSE r.value

----------------------------------------------------------------------------
(* parseSupabaseStoragePath, index.ts:65-84                                *)

\* the first index at or after i of a character of class, Len(s) + 1 if none
IndexOfFrom(s, class, i) ==
    Least({j \in i..Len(s) : Ch(s, j) \in class} \cup {Len(s) + 1})

RECURSIVE Split(_, _)
\* s.split(sep) for a one-character sep
Split(s, sep) ==
    LET i == IndexOfFrom(s, {sep}, 1)
    IN  IF i > Len(s) THEN <<s>>
        ELSE <<SubSeq(s, 1, i - 1)>> \o Split(SubSeq(s, i + 1, Len(s)), sep)

RECURSIVE FilterNonEmpty(_)
\* .filter(Boolean) on an array of strings
FilterNonEmpty(a) ==
    IF a = <<>> THEN <<>>
    ELSE (IF Head(a) = "" THEN <<>> ELSE <<Head(a)>>) \o FilterNonEmpty(Tail(a))

RECURSIVE Join(_, _)
Join(a, sep) ==
    IF a = <<>> THEN ""
    ELSE IF Len(a) = 1 THEN Head(a) ELSE Head(a) \o sep \o Join(Tail(a), sep)

\* a.findIndex((p) => p === x), 1-based; 0 when there is none
FindIndex(a, x) ==
    IF \E i \in 1..Len(a) : a[i] = x
    THEN CHOOSE i \in 1..Len(a) : a[i] = x /\ \A j \in 1..(i - 1) : a[j] # x
    ELSE 0

\* the first element where the last one is meant (shift for pop)
PopFirst(a) == IF a = <<>> THEN "" ELSE a[1]

\* a.pop() of a.split("/"): the last element
Pop(a) == a[Len(a)]

\* new URL(url).pathname: throws without an http(s) scheme; the path runs
\* from the first "/" after the host to a "?" or "#"
UrlPathname(url) ==
    LET start == IF StartsWith(url, "https://") THEN 9
                 ELSE IF StartsWith(url, "http://") THEN 8 ELSE 0
    IN  IF start = 0 \/ start > Len(url) THEN Thrown("Invalid URL")
        ELSE LET slash == IndexOfFrom(url, {"/", "?", "#"}, start)
                 stop  == IndexOfFrom(url, {"?", "#"}, start)
             IN  IF slash = start THEN Thrown("Invalid URL")
                 ELSE IF slash >= stop THEN Returned("/")
                 ELSE Returned(SubSeq(url, slash, stop - 1))

HexDigits == "0123456789ABCDEF"

HexVal(c) ==
    IF \E d \in 1..16 : Ch(HexDigits, d) = c
    THEN (CHOOSE d \in 1..16 : Ch(HexDigits, d) = c) - 1
    ELSE IF \E d \in 11..16 : LowerCh(Ch(HexDigits, d)) = c
         THEN (CHOOSE d \in 11..16 : LowerCh(Ch(HexDigits, d)) = c) - 1
         ELSE 0 - 1

\* the characters U+0020..U+005F and U+0061..U+007E in code order
AsciiLow == " !\"#$%&'()*+,-./0123456789:;<=>?@ABCDEFGHIJKLMNOPQRSTUVWXYZ[\\]^_"

AsciiHigh == "abcdefghijklmnopqrstuvwxyz{|}~"

\* the escapes decodeURIComponent is modelled on; the inputs hold no other
Decodable(code) == (code >= 32 /\ code <= 95) \/ (code >= 97 /\ code <= 126)

CharOfCode(code) ==
    IF code <= 95 THEN Ch(AsciiLow, code - 31) ELSE Ch(AsciiHigh, code - 96)

RECURSIVE DecodeFrom(_, _)
\* decodeURIComponent from index i on; ok = FALSE for a malformed escape
\* (URIError)
DecodeFrom(s, i) ==
    IF i > Len(s) THEN [ok |-> TRUE, s |-> ""]
    ELSE IF Ch(s, i) # "%"
         THEN LET r == DecodeFrom(s, i + 1)
              IN  [ok |-> r.ok, s |-> Ch(s, i) \o r.s]
         ELSE IF i + 2 > Len(s) \/ HexVal(Ch(s, i + 1)) < 0 \/ HexVal(Ch(s, i + 2)) < 0
              THEN [ok |-> FALSE, s |-> ""]
              ELSE LET code == 16 * HexVal(Ch(s, i + 1)) + HexVal(Ch(s, i + 2))
                       r    == DecodeFrom(s, i + 3)
                   IN  IF ~Decodable(code) THEN [ok |-> FALSE, s |-> ""]
                       ELSE [ok |-> r.ok, s |-> CharOfCode(code) \o r.s]

NoStoragePath == [found |-> FALSE, bucket |-> "", path |-> ""]

\* lines 65-84; found = FALSE is the null result
parseSupabaseStoragePath(url) ==
    LET pn == UrlPathname(url)
    IN  IF pn.threw THEN NoStoragePath
        ELSE
        LET parts == FilterNonEmpty(Split(pn.value, "/"))
            i     == FindIndex(parts, "storage")
        IN  IF i = 0 THEN NoStoragePath
            ELSE
            LET after     == SubSeq(parts, i, Len(parts))
                objectIdx == FindIndex(after, "object")
            IN  IF objectIdx = 0 THEN NoStoragePath
                ELSE
                LET b0        == objectIdx + 1
                    bucketIdx == IF b0 <= Len(after) /\ after[b0] \in {"public", "sign"}
                                 THEN b0 + 1 ELSE b0
                    bucket    == IF bucketIdx <= Len(after) THEN after[bucketIdx] ELSE ""
                    path      == DecodeFrom(Join(SubSeq(after, bucketIdx + 1, Len(after)), "/"), 1)
                IN  IF ~path.ok \/ bucket = "" \/ path.s = "" THEN NoStoragePath
                    ELSE [found |-> TRUE, bucket |-> bucket, path |-> path.s]

----------------------------------------------------------------------------
(* The serve handler, index.ts:246-321                                     *)

\* line 252, and the status of new Response(null, { headers }) on line 249
OkStatus == 200

\* the catch block answering with a server error
CatchStatusServerError == 500

\* line 299: the status the catch block sets
CatchStatus == 200

\* the payload of the catch block without the error field
CatchPayloadNoError(message) ==
    [ok               |-> Bool(FALSE),
     skills           |-> Arr(<<Str("Project Management"), Str("Client Relations")>>),
     experience_years |-> Num(0),
     job_role         |-> Str("Professional"),
     ats_score        |-> Num(700),
     summary          |-> Arr(<<Str("Experienced professional with relevant domain exposure."),
                                Str("Demonstrated proficiency with industry tools."),
                                Str("Delivered outcomes across projects and teams."),
                                Str("Improved processes and stakeholder satisfaction."),
                                Str("Adaptable with continuous learning mindset.")>>)]

\* lines 300-314: the payload of the catch block
CatchPayload(message) ==
    [ok               |-> Bool(FALSE),
     error            |-> Str(IF message = "" THEN "Unknown error" ELSE message),
     skills           |-> Arr(<<Str("Project Management"), Str("Client Relations")>>),
     experience_years |-> Num(0),
     job_role         |-> Str("Professional"),
     ats_score        |-> Num(700),
     summary          |-> Arr(<<Str("Experienced professional with relevant domain exposure."),
                                Str("Demonstrated proficiency with industry tools."),
                                Str("Delivered outcomes across projects and teams."),
                                Str("Improved processes and stakeholder satisfaction."),
                                Str("Adaptable with continuous learning mindset.")>>)]

\* line 295: { ok: true, ...analysis }; the keys of analysis come last
SuccessPayload(value) ==
    [k \in {"ok"} \cup DOMAIN value.o |->
        IF k \in DOMAIN value.o THEN value.o[k] ELSE Bool(TRUE)]

\* JSON.stringify of the payload, read back: a number that is not finite is
\* written as null
JsonStringify(payload) ==
    [k \in DOMAIN payload |->
        IF payload[k].t = "number" /\ ~IsFiniteNumber(payload[k]) THEN Null
        ELSE payload[k]]

\* line 317: new Response(JSON.stringify(payload), { status, ... })
Response(status, payload) == [status |-> status, body |-> Obj(JsonStringify(payload))]

NoResponse == [status |-> 0, body |-> Undefined]

NoSource == [via |-> "", bucket |-> "", path |-> "", url |-> ""]

NoBuffer == Buffer("none", <<>>)

NoArgs == [resumeText |-> "", fileName |-> "", experienceYearsHint |-> 0]

NoReply == [kind |-> "none"]

NoCalls == [storage |-> 0, http |-> 0, extract |-> 0, estimate |-> 0, inference |-> 0]

\* body.k as a string, "" when it is absent
Field(body, k) == IF k \in DOMAIN body.o THEN body.o[k].s ELSE ""

\* a || b on strings
OrElse(a, b) == IF a # "" THEN a ELSE b

\* lines 296-320: the catch block and the return that follows it
Catch(stage, message) ==
    /\ response' = Response(CatchStatus, CatchPayload(message))
    /\ failed' = stage
    /\ pc' = "done"

CleanIdle ==
    /\ cleanPc = "idle"
    /\ cleanIn = ""
    /\ cleanOut = ""
    /\ cleanTwice = ""

ExpIdle ==
    /\ expPc = "idle"
    /\ expText = ""
    /\ expNow = 0
    /\ expOut = 0

HandlerIdle ==
    /\ pc = "idle"
    /\ env = [admin |-> FALSE, key |-> FALSE]
    /\ req = [method |-> "", body |-> Undefined]
    /\ source = NoSource
    /\ fetchOutcome = ""
    /\ buffer = NoBuffer
    /\ contentType = ""
    /\ finalFileName = ""
    /\ text = ""
    /\ experienceYears = 0
    /\ aiArgs = NoArgs
    /\ aiReply = NoReply
    /\ analysis = Returned(Undefined)
    /\ response = NoResponse
    /\ calls = NoCalls
    /\ failed = ""

PairIdle == suspended = [running |-> 0]

ApplyIdle ==
    /\ job_applications = <<>>
    /\ applying = <<>>

UploadIdle ==
    /\ upload = [pc |-> "idle"]
    /\ resumes = <<>>

RouteIdle == route = [pc |-> "idle"]

OtherIdle ==
    /\ PairIdle
    /\ ApplyIdle
    /\ UploadIdle
    /\ RouteIdle

(* The requests, documents and replies the handler is run on               *)

StorageUrl == "https://proj.supabase.co/storage/v1/object/public/resumes/u1/my%20cv.pdf"

PlainUrl == "https://example.com/files/cv.docx"

OptionalField(k, values) ==
    {EmptyObject} \cup {[x \in {k} |-> Str(v)] : v \in values}

\* the union of two objects with disjoint keys
Merge(a, b) == [k \in DOMAIN a \cup DOMAIN b |-> IF k \in DOMAIN a THEN a[k] ELSE b[k]]

\* storagePath with or without bucket and a storage fileUrl, or no
\* storagePath and any fileUrl; fileName given or not
RequestBodies ==
    {Obj(Merge(Merge(sp, bk), Merge(fu, fn))) :
        sp \in OptionalField("storagePath", {"u1/cv.pdf"}),
        bk \in OptionalField("bucket", {"docs"}),
        fu \in OptionalField("fileUrl", {StorageUrl}),
        fn \in OptionalField("fileName", {"resume.docx"})}
        \cup {Obj(Merge(fu, fn)) :
                 fu \in OptionalField("fileUrl", {PlainUrl, "cv.pdf"}),
                 fn \in OptionalField("fileName", {"resume.docx"})}
        \cup {Obj(Merge(Merge([storagePath |-> Str("u1/cv.pdf")],
                             [fileUrl |-> Str(PlainUrl)]), fn)) :
                 fn \in OptionalField("fileName", {"resume.docx"})}

Requests ==
    {[method |-> "OPTIONS", body |-> Undefined]}
        \cup {[method |-> "POST", body |-> b] : b \in RequestBodies \cup {Garbage, Null}}

ShortText == <<"John Doe">>

LongText ==
    <<"Senior engineer, Acme Corp\t2015 - 2018",
      "* Go and SQL\n\n\nData lead, Initech, 2016 - 2020">>

CareerText == <<"Consultant at Globex from Jan 1990 - Present, retained by 40 clients">>

\* two invocations are run together on fewer documents and replies than one
\* invocation alone
Paired == suspended.running # 0

PairBuffers == {Buffer("pdf", CareerText), Buffer("docx", LongText)}

Buffers ==
    IF Paired THEN PairBuffers
    ELSE {Buffer("pdf", t) : t \in {ShortText, LongText, CareerText}}
             \cup {Buffer("docx", LongText), Buffer("plain", ShortText),
                   Buffer("plain", LongText), Buffer("empty", <<>>)}

ContentTypes == IF Paired THEN {"", DocxMime} ELSE {"", "application/pdf", DocxMime}

\* what storage.from(bucket).download(path) resolves to
StorageOutcomes ==
    {[error |-> m, buffer |-> NoBuffer, contentType |-> ""] :
        m \in {"Object not found", "fetch failed"}}
        \cup {[error |-> "", buffer |-> b, contentType |-> c] :
                 b \in Buffers, c \in ContentTypes}

\* what fetch(fileUrl) does: rejects, or resolves to a reply with a status
HttpOutcomes ==
    {[kind |-> "network", status |-> "", buffer |-> NoBuffer, contentType |-> ""],
     [kind |-> "http", status |-> "404 Not Found", buffer |-> NoBuffer, contentType |-> ""]}
        \cup {[kind |-> "ok", status |-> "200 OK", buffer |-> b, contentType |-> c] :
                 b \in Buffers, c \in ContentTypes}

\* new Date() in computeExperienceYears
Clocks == {DateOf(2026, 10)}

GoodProfile ==
    [job_role         |-> Str("Data Engineer"),
     experience_years |-> Num(35),
     skills           |-> Arr(<<Str("Go"), Str(" Go"), Str("go"), Str(""), Str("SQL")>>),
     summary          |-> Arr(<<Str("one"), Str("two "), Str("three"), Str("four"),
                                Str("five"), Str("six")>>),
     ats_score        |-> Num(880),
     recommendations  |-> Arr(<<Str("Quantify achievements")>>),
     missing_skills   |-> Arr(<<>>),
     strength_areas   |-> Arr(<<Str("Data pipelines")>>)]

\* o without the key k
Without(o, k) == [x \in DOMAIN o \ {k} |-> o[x]]

FieldValues(k) ==
    CASE k = "skills"           -> {Null, Str("Go, SQL"), Arr(<<Num(15), Null>>)}
      [] k = "summary"          -> {Null, Str("A data engineer."), Arr(<<>>)}
      [] k = "experience_years" -> {Null, Num(0 - 20), Infinite, Str("ten")}
      [] k = "ats_score"        -> {Null, Num(1500), Num(725), Num(0), Num(0 - 50), Infinite}
      [] k = "job_role"         -> {Null, Str("  "), Str(""), Num(70)}
      [] k = "recommendations"  -> {Null, Str("none")}
      [] k = "missing_skills"   -> {Null}
      [] k = "strength_areas"   -> {Num(30)}
      [] k = "ok"               -> {Bool(FALSE)}
      [] k = "error"            -> {Str("injected")}

ProfileKeys == DOMAIN GoodProfile \cup {"ok", "error"}

\* the JSON values the inference service may write
ReplyValues ==
    {Obj(o) : o \in {GoodProfile, EmptyObject}}
        \cup {Obj(Without(GoodProfile, k)) : k \in DOMAIN GoodProfile}
        \cup UNION {{Obj(Put(GoodProfile, k, v)) : v \in FieldValues(k)} : k \in ProfileKeys}
        \cup {Obj(Put(Put(GoodProfile, "experience_years", e), "ats_score", a)) :
                 e \in {Null, Num(0 - 20)}, a \in {Null, Infinite}}
        \cup {Null, Num(50), Str("a resume"), Bool(TRUE), Arr(<<>>),
              Arr(<<Str("Go")>>), Arr(<<Obj(GoodProfile)>>),
              Arr(<<Obj(GoodProfile), Obj(EmptyObject)>>)}

\* what the call to the inference service does
PairReplies ==
    {[kind |-> "network", status |-> "", content |-> Content(FALSE, Garbage)],
     [kind |-> "ok", status |-> "200 OK", content |-> Content(FALSE, Obj(GoodProfile))],
     [kind |-> "ok", status |-> "200 OK", content |-> Content(FALSE, Garbage)]}

Replies ==
    IF Paired THEN PairReplies
    ELSE {[kind |-> "network", status |-> "", content |-> Content(FALSE, Garbage)],
          [kind |-> "http", status |-> "429 Too Many Requests",
           content |-> Content(FALSE, Garbage)],
          [kind |-> "body", status |-> "200 OK", content |-> Content(FALSE, Garbage)]}
             \cup {[kind |-> "ok", status |-> "200 OK", content |-> Content(FALSE, v)] :
                      v \in ReplyValues \cup {Garbage}}
             \cup {[kind |-> "ok", status |-> "200 OK", content |-> Content(TRUE, v)] :
                      v \in {Obj(GoodProfile), Null, Num(50), Garbage}}

(* The steps of the handler                                                *)

\* the handler entered with a request, nothing read or computed yet
HandlerStart ==
    /\ pc = "start"
    /\ env \in [admin : BOOLEAN, key : BOOLEAN]
    /\ req \in Requests
    /\ source = NoSource
    /\ fetchOutcome = ""
    /\ buffer = NoBuffer
    /\ contentType = ""
    /\ finalFileName = ""
    /\ text = ""
    /\ experienceYears = 0
    /\ aiArgs = NoArgs
    /\ aiReply = NoReply
    /\ analysis = Returned(Undefined)
    /\ response = NoResponse
    /\ calls = NoCalls
    /\ failed = ""

Init ==
    /\ HandlerStart
    /\ CleanIdle
    /\ ExpIdle
    /\ OtherIdle

\* lines 248-250
Preflight ==
    /\ pc = "start"
    /\ req.method = "OPTIONS"
    /\ response' = [status |-> OkStatus, body |-> Null]
    /\ pc' = "done"
    /\ UNCHANGED <<env, req, source, fetchOutcome, buffer, contentType,
                   finalFileName, text, experienceYears, aiArgs, aiReply, analysis,
                   calls, failed, cleanVars, expVars, otherVars>>

\* line 87 answered, without an admin client, by a plain GET of the fileUrl
StartDownloadOrHttp(bucket, path) ==
    IF ~env.admin
    THEN /\ source' = [via |-> "http", bucket |-> "", path |-> "",
                       url |-> Field(req.body, "fileUrl")]
         /\ calls' = [calls EXCEPT !.http = @ + 1]
         /\ pc' = "fetch"
         /\ UNCHANGED <<response, failed>>
    ELSE /\ source' = [via |-> "storage", bucket |-> bucket, path |-> path, url |-> ""]
         /\ calls' = [calls EXCEPT !.storage = @ + 1]
         /\ pc' = "download"
         /\ UNCHANGED <<response, failed>>

\* line 87, then the call on line 88 issued a second time after the first
StartDownloadTwice(bucket, path) ==
    IF ~env.admin
    THEN /\ Catch("config", "Supabase admin client not configured")
         /\ UNCHANGED <<source, calls>>
    ELSE /\ source' = [via |-> "storage", bucket |-> bucket, path |-> path, url |-> ""]
         /\ calls' = [calls EXCEPT !.storage = @ + 2]
         /\ pc' = "download"
         /\ UNCHANGED <<response, failed>>

\* line 87 of downloadFromSupabase, then the call on line 88
StartDownload(bucket, path) ==
    IF ~env.admin
    THEN /\ Catch("config", "Supabase admin client not configured")
         /\ UNCHANGED <<source, calls>>
    ELSE /\ source' = [via |-> "storage", bucket |-> bucket, path |-> path, url |-> ""]
         /\ calls' = [calls EXCEPT !.storage = @ + 1]
         /\ pc' = "download"
         /\ UNCHANGED <<response, failed>>

\* line 282 throwing without a message: line 302 then reports "Unknown error"
MissingSourceUnnamed == "Unknown error"

\* line 282
MissingSourceMessage == "Missing storagePath or fileUrl"

\* lines 256-283: the body is read and the source of the bytes is chosen
ReadBody ==
    /\ pc = "start"
    /\ req.method # "OPTIONS"
    /\ IF req.body.t = "garbage"
       THEN /\ Catch("body", "Unexpected token in JSON")
            /\ UNCHANGED <<source, calls>>
       ELSE IF req.body.t # "object"
       THEN /\ Catch("body", "Cannot read properties of null (reading 'bucket')")
            /\ UNCHANGED <<source, calls>>
       ELSE LET bucket      == OrElse(Field(req.body, "bucket"), "resumes")
                storagePath == Field(req.body, "storagePath")
                fileUrl     == Field(req.body, "fileUrl")
            IN  IF storagePath # ""
                THEN StartDownload(bucket, storagePath)
                ELSE IF fileUrl # ""
                THEN LET parsed == parseSupabaseStoragePath(fileUrl)
                     IN  IF parsed.found
                         THEN StartDownload(parsed.bucket, parsed.path)
                         ELSE /\ source' = [via |-> "http", bucket |-> "", path |-> "",
                                            url |-> fileUrl]
                              /\ calls' = [calls EXCEPT !.http = @ + 1]
                              /\ pc' = "fetch"
                              /\ UNCHANGED <<response, failed>>
                ELSE /\ Catch("source", MissingSourceMessage)
                     /\ UNCHANGED <<source, calls>>
    /\ UNCHANGED <<env, req, fetchOutcome, buffer, contentType, finalFileName,
                   text, experienceYears, aiArgs, aiReply, analysis, cleanVars,
                   expVars, otherVars>>

\* a download that degrades to an empty buffer instead of throwing
downloadFromSupabaseDegrading(outcome) ==
    IF outcome.error # ""
    THEN Returned([buffer |-> Buffer("empty", <<>>), contentType |-> ""])
    ELSE Returned([buffer |-> outcome.buffer, contentType |-> outcome.contentType])

\* lines 88-90 of downloadFromSupabase: what a storage error becomes
downloadFromSupabase(outcome) ==
    IF outcome.error # ""
    THEN Thrown("Storage download error: " \o outcome.error)
    ELSE Returned([buffer |-> outcome.buffer, contentType |-> outcome.contentType])

\* lines 94-96 of fetchViaHttp: what a failed fetch becomes
fetchViaHttp(outcome) ==
    CASE outcome.kind = "network" -> Thrown("error sending request")
      [] outcome.kind = "http"    -> Thrown("HTTP download failed: " \o outcome.status)
      [] OTHER -> Returned([buffer |-> outcome.buffer, contentType |-> outcome.contentType])

\* lines 268-269 and 274-275: the storage download returns
Download ==
    /\ pc = "download"
    /\ \E outcome \in StorageOutcomes :
         LET dl == downloadFromSupabase(outcome)
         IN  /\ fetchOutcome' = (IF outcome.error # "" THEN "storage-error" ELSE "ok")
             /\ IF dl.threw
                THEN /\ Catch("storage", dl.message)
                     /\ UNCHANGED <<buffer, contentType, finalFileName>>
                ELSE /\ buffer' = dl.value.buffer
                     /\ contentType' = dl.value.contentType
                     /\ finalFileName' =
                            OrElse(Field(req.body, "fileName"),
                                   OrElse(Pop(Split(source.path, "/")), "document"))
                     /\ pc' = "extract"
                     /\ UNCHANGED <<response, failed>>
    /\ UNCHANGED <<env, req, source, text, experienceYears, aiArgs, aiReply,
                   analysis, calls, cleanVars, expVars, otherVars>>

\* lines 278-279: the plain HTTP download returns
FetchHttp ==
    /\ pc = "fetch"
    /\ \E outcome \in HttpOutcomes :
         \* fetch rejects a string that is not a URL
         /\ UrlPathname(source.url).threw => outcome.kind = "network"
         /\ fetchOutcome' = (IF outcome.kind = "ok" THEN "ok" ELSE outcome.kind \o "-error")
         /\ LET dl == fetchViaHttp(outcome)
            IN  IF dl.threw
                THEN /\ Catch("http", dl.message)
                     /\ UNCHANGED <<buffer, contentType, finalFileName>>
                ELSE /\ buffer' = dl.value.buffer
                     /\ contentType' = dl.value.contentType
                     /\ finalFileName' =
                            OrElse(Field(req.body, "fileName"),
                                   OrElse(Pop(Split(UrlPathname(source.url).value, "/")),
                                          "document"))
                     /\ pc' = "extract"
                     /\ UNCHANGED <<response, failed>>
    /\ UNCHANGED <<env, req, source, text, experienceYears, aiArgs, aiReply,
                   analysis, calls, cleanVars, expVars, otherVars>>

\* line 286
ExtractText ==
    /\ pc = "extract"
    /\ text' = extractText(buffer, finalFileName, contentType)
    /\ calls' = [calls EXCEPT !.extract = @ + 1]
    /\ pc' = "estimate"
    /\ UNCHANGED <<env, req, source, fetchOutcome, buffer, contentType,
                   finalFileName, experienceYears, aiArgs, aiReply, analysis,
                   response, failed, cleanVars, expVars, otherVars>>

\* line 290 given the bytes as decoded instead of the extracted text
ComputeExperienceOnBytes ==
    /\ pc = "estimate"
    /\ \E now \in Clocks :
         experienceYears' = computeExperienceYears(DecodeUtf8(buffer), now)
    /\ calls' = [calls EXCEPT !.estimate = @ + 1]
    /\ pc' = "infer"
    /\ UNCHANGED <<env, req, source, fetchOutcome, buffer, contentType,
                   finalFileName, text, aiArgs, aiReply, analysis, response, failed,
                   cleanVars, expVars, otherVars>>

\* line 290
ComputeExperience ==
    /\ pc = "estimate"
    /\ \E now \in Clocks : experienceYears' = computeExperienceYears(text, now)
    /\ calls' = [calls EXCEPT !.estimate = @ + 1]
    /\ pc' = "infer"
    /\ UNCHANGED <<env, req, source, fetchOutcome, buffer, contentType,
                   finalFileName, text, aiArgs, aiReply, analysis, response, failed,
                   cleanVars, expVars, otherVars>>

\* the resumeText argument of the call on line 293
InferenceText(extracted, fileName) == extracted

\* lines 293-295 with line 187 of analyzeWithAI: the inference call and the
\* response built from what it returns
Infer ==
    /\ pc = "infer"
    /\ aiArgs' = [resumeText |-> InferenceText(text, finalFileName),
                  fileName |-> finalFileName,
                  experienceYearsHint |-> experienceYears]
    /\ IF ~env.key
       THEN /\ analysis' = Thrown("OPENAI_API_KEY not configured")
            /\ Catch("config", "OPENAI_API_KEY not configured")
            /\ UNCHANGED <<aiReply, calls>>
       ELSE \E reply \in Replies :
              LET r == analyzeWithAI(reply, experienceYears)
              IN  /\ aiReply' = reply
                  /\ analysis' = r
                  /\ calls' = [calls EXCEPT !.inference = @ + 1]
                  /\ IF r.threw
                     THEN Catch("inference", r.message)
                     ELSE /\ response' = Response(OkStatus, SuccessPayload(r.value))
                          /\ pc' = "done"
                          /\ UNCHANGED failed
    /\ UNCHANGED <<env, req, source, fetchOutcome, buffer, contentType,
                   finalFileName, text, experienceYears, cleanVars, expVars, otherVars>>

\* lines 88, 94 and 192: the awaited call never settles.  No call is given a
\* timeout or an abort signal, so the handler stays suspended at its await.
NeverAnswers ==
    /\ \/ pc \in {"download", "fetch"} /\ UNCHANGED <<aiArgs, calls>>
       \/ /\ pc = "infer"
          /\ env.key
          /\ aiArgs' = [resumeText |-> InferenceText(text, finalFileName),
                        fileName |-> finalFileName,
                        experienceYearsHint |-> experienceYears]
          /\ calls' = [calls EXCEPT !.inference = @ + 1]
    /\ pc' = "suspended"
    /\ UNCHANGED <<env, req, source, fetchOutcome, buffer, contentType,
                   finalFileName, text, experienceYears, aiReply, analysis,
                   response, failed, cleanVars, expVars, otherVars>>

Next ==
    \/ Preflight
    \/ ReadBody
    \/ Download
    \/ FetchHttp
    \/ ExtractText
    \/ ComputeExperience
    \/ Infer
    \/ NeverAnswers

Spec == Init /\ [][Next]_vars

\* a stage at which the handler always has a step to take: reading the
\* body, a download settling one way or the other, extraction, the estimate
RunnableStages == {"start", "download", "fetch", "extract", "estimate"}

\* The runtime runs the handler whenever it has a step to take: weak
\* fairness of every step.  For the steps enabled exactly at their stage it
\* is written with that stage: the handler does not stay there for ever.
SpecLive ==
    /\ Spec
    /\ WF_vars(Preflight)
    /\ WF_vars(Infer)
    /\ []<>(pc \notin RunnableStages)

----------------------------------------------------------------------------
(* Properties of the handler                                               *)

Done == pc = "done"

\* the handler answered a request that is not a CORS preflight
Answered == Done /\ req.method # "OPTIONS"

\* analyzeWithAI was called (line 293 was reached)
InferenceCalled == Done /\ calls.estimate = 1

Body == response.body.o

IsStringArray(v) == v.t = "array" /\ \A i \in 1..Len(v.a) : v.a[i].t = "string"

Has(o, k) == k \in DOMAIN o

\* the fields AnalyzeResult declares without "?" (index.ts:31-36)
RequiredFieldsTyped(o) ==
    /\ Has(o, "skills") /\ IsStringArray(o["skills"])
    /\ Has(o, "experience_years") /\ IsFiniteNumber(o["experience_years"])
    /\ Has(o, "job_role") /\ o["job_role"].t = "string"
    /\ Has(o, "ats_score") /\ IsFiniteNumber(o["ats_score"])
    /\ Has(o, "summary") /\ IsStringArray(o["summary"])

\* the fields AnalyzeResult declares with "?" (index.ts:37-39)
OptionalFieldsTyped(o) ==
    \A k \in {"recommendations", "missing_skills", "strength_areas"} :
        Has(o, k) /\ IsStringArray(o[k])

\* ats_score is a whole number from 1 to 100
AtsInRange(o) ==
    /\ Has(o, "ats_score") /\ IsFiniteNumber(o["ats_score"])
    /\ o["ats_score"].n % 10 = 0
    /\ o["ats_score"].n >= 10 /\ o["ats_score"].n <= 1000

\* a fully typed profile: every field present and of its declared type
ShapeValid(o) ==
    /\ RequiredFieldsTyped(o)
    /\ OptionalFieldsTyped(o)
    /\ AtsInRange(o)
    /\ Len(o["summary"].a) <= 5

FetchFailed == fetchOutcome \in {"storage-error", "http-error", "network-error"}

MinContentLength == 50

\* C3: a text of fewer than 50 characters is replaced, for the inference
\* call, by the description built from the file name; a longer text is
\* handed over as it is
C3_ShortTextSubstituted ==
    InferenceCalled =>
        IF Len(text) < MinContentLength
        THEN /\ aiArgs.resumeText # text
             /\ Includes(aiArgs.resumeText, "Resume document: " \o finalFileName)
        ELSE aiArgs.resumeText = text

\* C4: every response has status 200; a failure shows only as ok = false
\* with an error string
C4_AlwaysStatus200 ==
    Done =>
        /\ response.status = 200
        /\ (failed # "" =>
                /\ Body["ok"] = Bool(FALSE)
                /\ Has(Body, "error") /\ Body["error"].t = "string"
                /\ Body["error"].s # "")

C4_Witness ==
    /\ Done
    /\ req.body = Garbage
    /\ failed = "body"
    /\ response.status = 200

\* the reply text could not be parsed even after brace extraction
Unparseable == aiReply.kind = "ok" /\ ~ParseContent(aiReply.content).ok

NotAProfileObject ==
    /\ aiReply.kind = "ok"
    /\ LET c == aiReply.content
       IN  \/ c.wrap
           \/ c.val.t # "object"
           \/ OrEmptyArray(Get(c.val.o, "skills")).t # "array"
           \/ OrEmptyArray(Get(c.val.o, "summary")).t # "array"

\* C6: for a reply text that is not a JSON object the inference step still
\* returns a result, and the result passes the shape validation
C6_MalformedReplyRecovered ==
    InferenceCalled /\ NotAProfileObject =>
        ~analysis.threw /\ ShapeValid(analysis.value.o)

\* C7: ats_score of every response is a whole number from 1 to 100
C7_AtsScoreInRange == Answered => AtsInRange(Body)

----------------------------------------------------------------------------
(* Specification of the normalizer alone: every text over the alphabet up  *)
(* to MaxCleanLen characters is normalized once and then once more.        *)

MaxCleanLen == 4

CleanAlphabet == {"a", " ", "\n", "\t", "-", "*", "_"}

RECURSIVE TextsOfLen(_)
TextsOfLen(n) ==
    IF n = 0 THEN {""}
    ELSE {c \o s : c \in CleanAlphabet, s \in TextsOfLen(n - 1)}

\* two paragraphs with one, two or three blank lines between them
ParagraphTexts == {"a\n\na", "a\n\n\na", "a\n\n\n\na"}

CleanInputs == UNION {TextsOfLen(n) : n \in 0..MaxCleanLen} \cup ParagraphTexts

InitClean ==
    /\ cleanPc = "input"
    /\ cleanIn \in CleanInputs
    /\ cleanOut = ""
    /\ cleanTwice = ""
    /\ ExpIdle
    /\ HandlerIdle
    /\ OtherIdle

NormalizeOnce ==
    /\ cleanPc = "input"
    /\ cleanOut' = cleanExtractedText(cleanIn)
    /\ cleanPc' = "once"
    /\ UNCHANGED <<cleanIn, cleanTwice, expVars, handlerVars, otherVars>>

NormalizeAgain ==
    /\ cleanPc = "once"
    /\ cleanTwice' = cleanExtractedText(cleanOut)
    /\ cleanPc' = "twice"
    /\ UNCHANGED <<cleanIn, cleanOut, expVars, handlerVars, otherVars>>

NextClean == NormalizeOnce \/ NormalizeAgain

SpecClean == InitClean /\ [][NextClean]_vars

\* C9: normalize is idempotent: normalizing a normalized text changes nothing
C9_Idempotent == cleanPc = "twice" => cleanTwice = cleanOut

----------------------------------------------------------------------------
(* Specification of the experience estimate alone: texts of up to          *)
(* MaxRanges phrases, each a date range or a phrase without dates, read at *)
(* one of two clock values.                                                *)

MaxRanges == 2

ExpYears == {"2015", "2016", "2018", "2020"}

ExpPhrases ==
    {a \o " - " \o b : a, b \in ExpYears}
        \cup {"2019-Present", "Jan 2020 - Present", "Mar 2019 ~ Jun 2021",
              "no dates here"}

RECURSIVE ExpTextsOf(_)
ExpTextsOf(n) ==
    IF n = 0 THEN {""}
    ELSE {p \o "; " \o t : p \in ExpPhrases, t \in ExpTextsOf(n - 1)}

ExpInputs == UNION {ExpTextsOf(n) : n \in 0..MaxRanges}

\* new Date() as a month count: January 2024 and November 2026
ExpClocks == {DateOf(2024, 0), DateOf(2026, 10)}

InitExp ==
    /\ expPc = "input"
    /\ expText \in ExpInputs
    /\ expNow \in ExpClocks
    /\ expOut = 0
    /\ CleanIdle
    /\ HandlerIdle
    /\ OtherIdle

Estimate ==
    /\ expPc = "input"
    /\ expOut' = computeExperienceYears(expText, expNow)
    /\ expPc' = "done"
    /\ UNCHANGED <<expText, expNow, cleanVars, handlerVars, otherVars>>

NextExp == Estimate

SpecExp == InitExp /\ [][NextExp]_vars

RECURSIVE SeqToSet(_)
SeqToSet(q) == IF q = <<>> THEN {} ELSE {Head(q)} \cup SeqToSet(Tail(q))

\* the span from the earliest start to the latest end of a set of ranges, in tenths
Envelope(R) ==
    RoundToTenths(Greatest({r.end : r \in R}) - Least({r.start : r \in R}))

\* C10: over several date ranges the estimate is the span from the earliest
\* start to the latest end (whole months / 12, one decimal), not the sum of
\* the range lengths: 2015-2018 with 2016-2020 gives 5.0
C10_Envelope ==
    expPc = "done" =>
        /\ LET R == SeqToSet(RangesOf(expText, expNow))
           IN  R # {} => expOut = Envelope(R)
        /\ expText = "2015 - 2018; 2016 - 2020; " => expOut = 50

C10_Witness ==
    /\ expPc = "done"
    /\ expText = "2015 - 2018; 2016 - 2020; "
    /\ Len(RangesOf(expText, expNow)) = 2
    /\ expOut = 50


\* every match of the two patterns in the text, in the order the loop meets them
MatchesOf(txt) == ExecAll(patterns[1], txt, 1) \o ExecAll(patterns[2], txt, 1)

\* the match is a year range "Y1 - Y2" with both years in digits
IsYearToYear(m) == m.sm = "" /\ m.ey \notin {"present", "current"}

\* C11: a text whose only date range is a year range "Y1 - Y2" gives Y2 - Y1
\* when Y2 >= Y1 and 0 when Y2 < Y1; a text with no date range gives 0; the
\* estimate is never negative
C11_SingleYearRange ==
    expPc = "done" =>
        LET ms == MatchesOf(expText)
        IN  /\ expOut >= 0
            /\ (Len(ms) = 0 => expOut = 0)
            /\ (Len(ms) = 1 /\ IsYearToYear(ms[1]) =>
                    LET y1 == parseInt(ms[1].sy)
                        y2 == parseInt(ms[1].ey)
                    IN  expOut = IF y2 >= y1 THEN 10 * (y2 - y1) ELSE 0)

C11_Witness ==
    /\ expPc = "done"
    /\ expText = "2020 - 2018; "
    /\ Len(MatchesOf(expText)) = 1
    /\ RangesOf(expText, expNow) = <<>>
    /\ expOut = 0

----------------------------------------------------------------------------
(* Further properties of the handler                                       *)

\* the extraction stage has run
Extracted == calls.extract = 1

\* what extractText makes of a parser's outcome: the text, "" if it threw
ParsedAs(r) == IF r.threw THEN "" ELSE r.value

\* C12: the format is chosen by the suffix of the file name before the
\* content type: a name ending in .docx is parsed as DOCX and a name ending
\* in .pdf as PDF, whatever the content type says
C12_SuffixBeforeContentType ==
    Extracted =>
        /\ (EndsWith(LowerStr(finalFileName), ".docx") =>
                text = ParsedAs(extractDocx(buffer)))
        /\ (EndsWith(LowerStr(finalFileName), ".pdf") =>
                text = ParsedAs(extractPdf(buffer)))

\* the parser that extractText chose rejected the bytes
ParserThrew ==
    IF isPdf(finalFileName, contentType) THEN extractPdf(buffer).threw
    ELSE isDocx(finalFileName, contentType) /\ extractDocx(buffer).threw

\* C13: extractText never throws: a parse exception gives the empty string,
\* and the estimate and the inference stage follow the extraction
C13_ExtractNeverThrows ==
    /\ (Extracted /\ ParserThrew => text = "")
    /\ (Extracted /\ pc = "estimate" => failed = "")
    /\ (Extracted /\ Done =>
            /\ calls.estimate = 1
            /\ aiArgs = [resumeText |-> text, fileName |-> finalFileName,
                         experienceYearsHint |-> experienceYears]
            /\ failed \in {"", "config", "inference"})

C13_Witness ==
    /\ Done
    /\ Extracted
    /\ ParserThrew
    /\ buffer.format = "docx"
    /\ text = ""
    /\ calls.estimate = 1
    /\ calls.inference = 1

\* the document fetches attempted so far, storage downloads and HTTP downloads
Fetches == calls.storage + calls.http

\* C14 as stated: every invocation attempts the document fetch exactly once
\* and the inference call exactly once, on any path
C14_ExactlyOnce == Answered => Fetches = 1 /\ calls.inference = 1

\* C14 (amended): the fetch and the inference call are each attempted at most
\* once and never retried; the fetch is attempted once when a source was
\* found and the admin client it needs is configured, the inference call
\* once when the fetch succeeded and the API key is set, and otherwise not
C14_AtMostOnce ==
    /\ Fetches <= 1
    /\ calls.inference <= 1
    /\ (Answered =>
            /\ (Fetches = 1 <=> fetchOutcome # "")
            /\ (Fetches = 0 <=> failed \in {"body", "source"}
                                  \/ (failed = "config" /\ ~env.admin /\ aiArgs = NoArgs))
            /\ (calls.inference = 1 <=> fetchOutcome = "ok" /\ env.key))

C14_Witness ==
    /\ Answered
    /\ fetchOutcome = "storage-error"
    /\ calls.storage = 1
    /\ calls.http = 0
    /\ calls.inference = 0
    /\ env.key

\* the request body is an object that gives neither storagePath nor fileUrl
NoSourceGiven ==
    /\ req.method # "OPTIONS"
    /\ req.body.t = "object"
    /\ Field(req.body, "storagePath") = ""
    /\ Field(req.body, "fileUrl") = ""

\* C15: a request that gives neither storagePath nor fileUrl fails as a
\* missing source: nothing is downloaded, extracted, estimated or inferred,
\* and the response has ok = false and an error naming the missing source
C15_MissingSource ==
    NoSourceGiven =>
        /\ calls = NoCalls
        /\ fetchOutcome = ""
        /\ pc \in {"start", "done"}
        /\ (Done =>
                /\ failed = "source"
                /\ Body["ok"] = Bool(FALSE)
                /\ Body["error"] = Str("Missing storagePath or fileUrl")
                /\ aiArgs = NoArgs)

C15_Witness ==
    /\ NoSourceGiven
    /\ Done
    /\ Has(req.body.o, "fileName")
    /\ failed = "source"
    /\ Body["error"] = Str("Missing storagePath or fileUrl")

\* the inference step returned a profile made from a JSON object of the reply
ProfileReturned ==
    /\ InferenceCalled
    /\ aiReply.kind = "ok"
    /\ ~analysis.threw
    /\ ParseContent(aiReply.content).ok
    /\ ParseContent(aiReply.content).value.t = "object"

\* the JSON object the reply held, before the sanitize block
Parsed == ParseContent(aiReply.content).value.o

\* the value the returned profile has for field k
Result(k) == analysis.value.o[k]

\* C16: when the inference result has no ats_score, or one that is not a
\* finite number, ats_score is min(95, max(50, 60 + round(2 * hint))) of the
\* heuristic experience hint, whatever experience_years the result carries
C16_AtsFromHint ==
    ProfileReturned /\ ~IsFiniteNumber(Get(Parsed, "ats_score")) =>
        Result("ats_score") = Num(AtsFromYears(experienceYears))

\* v is absent, null, or a string that is empty or made only of white space
Blank(v) == v.t \in {"undefined", "null"} \/ (v.t = "string" /\ Trim(v.s) = "")

\* C17: job_role of every response is a non-empty string; a job_role that
\* the inference result lacks, or gives empty or as white space only, is
\* "Professional"
C17_JobRoleNonBlank ==
    /\ (Answered => Has(Body, "job_role") /\ Body["job_role"].t = "string"
                       /\ Body["job_role"].s # "")
    /\ (ProfileReturned /\ Blank(Get(Parsed, "job_role")) =>
            Result("job_role") = Str("Professional"))

\* C18: experience_years of every response is a finite number that is not
\* negative; when the inference result lacks it or gives no finite number
\* it is the heuristic hint
C18_ExperienceNonNegative ==
    /\ (Answered => /\ Has(Body, "experience_years")
                    /\ IsFiniteNumber(Body["experience_years"])
                    /\ Body["experience_years"].n >= 0)
    /\ (ProfileReturned /\ ~IsFiniteNumber(Get(Parsed, "experience_years")) =>
            Result("experience_years") = Num(experienceYears))

\* analyzeWithAI returned a profile
InferenceReturned == InferenceCalled /\ aiReply # NoReply /\ ~analysis.threw

\* C19: the skills the inference step returns hold no two equal strings, no
\* string with white space at either end and no empty string; skills that
\* differ in letter case are both kept, skills that differ in surrounding
\* white space are merged
C19_SkillsUniqueTrimmed ==
    InferenceReturned =>
        LET skills == Result("skills")
        IN  /\ IsStringArray(skills)
            /\ \A i, j \in 1..Len(skills.a) : skills.a[i] = skills.a[j] => i = j
            /\ \A i \in 1..Len(skills.a) :
                   skills.a[i].s # "" /\ Trim(skills.a[i].s) = skills.a[i].s
            /\ (ProfileReturned /\ Get(Parsed, "skills") = GoodProfile["skills"] =>
                   skills = Arr(<<Str("Go"), Str("go"), Str("SQL")>>))

C19_Witness ==
    /\ InferenceReturned
    /\ ProfileReturned
    /\ Get(Parsed, "skills") =
           Arr(<<Str("Go"), Str(" Go"), Str("go"), Str(""), Str("SQL")>>)
    /\ Result("skills") = Arr(<<Str("Go"), Str("go"), Str("SQL")>>)

\* C20: every invocation eventually returns a response, also when the
\* storage download, the HTTP download or the inference call never answers
C20_EventuallyResponds == <>Done

\* the request gives no storagePath and a fileUrl that
\* parseSupabaseStoragePath recognizes as a path into the object store
StorageUrlGiven ==
    /\ req.method # "OPTIONS"
    /\ req.body.t = "object"
    /\ Field(req.body, "storagePath") = ""
    /\ Field(req.body, "fileUrl") # ""
    /\ parseSupabaseStoragePath(Field(req.body, "fileUrl")).found

\* C21: a fileUrl recognized as a path into the object store is retrieved
\* by the storage download of the parsed bucket and path; no HTTP GET of the
\* URL is issued, also when the download fails or the admin client is missing
C21_StorageUrlNeverFetched ==
    StorageUrlGiven =>
        LET parsed == parseSupabaseStoragePath(Field(req.body, "fileUrl"))
        IN  /\ calls.http = 0
            /\ pc # "fetch"
            /\ (source # NoSource =>
                    source = [via |-> "storage", bucket |-> parsed.bucket,
                              path |-> parsed.path, url |-> ""])
            /\ (pc # "start" => calls.storage = (IF env.admin THEN 1 ELSE 0))
            /\ (Done /\ ~env.admin =>
                    Body["error"] = Str("Supabase admin client not configured"))

C21_Witness ==
    /\ StorageUrlGiven
    /\ Done
    /\ fetchOutcome = "storage-error"
    /\ source.bucket = "resumes"
    /\ source.path = "u1/my cv.pdf"
    /\ calls.storage = 1
    /\ calls.http = 0

\* the place of every stage in the order of lines 256-320
StageRank ==
    [s \in {"idle", "start", "download", "fetch", "extract", "estimate", "infer",
            "suspended", "done"} |->
        CASE s \in {"idle", "start"}     -> 0
          [] s \in {"download", "fetch"} -> 1
          [] s = "extract"               -> 2
          [] s = "estimate"              -> 3
          [] s = "infer"                 -> 4
          [] OTHER                       -> 5]

\* every stage works on what the stages before it produced
DataForward ==
    /\ (calls.extract = 1 =>
            /\ fetchOutcome = "ok"
            /\ text = extractText(buffer, finalFileName, contentType))
    /\ (calls.estimate = 1 =>
            /\ calls.extract = 1
            /\ \E now \in Clocks : experienceYears = computeExperienceYears(text, now))
    /\ (aiArgs # NoArgs =>
            /\ calls.estimate = 1
            /\ aiArgs.resumeText = text
            /\ aiArgs.experienceYearsHint = experienceYears)
    /\ (calls.inference = 1 => aiArgs # NoArgs)
    /\ (StageRank[pc] <= 2 => calls.extract = 0)
    /\ (StageRank[pc] <= 3 => calls.estimate = 0)
    /\ (StageRank[pc] <= 4 => calls.inference = 0 /\ aiArgs = NoArgs)

\* C23: the stages of an invocation run forward and never go back; the
\* inference call comes after the fetch, the extraction and the estimate,
\* the estimate is computed on the extracted text and the hint given to the
\* inference call is that estimate
C23_StagesForward ==
    /\ [][StageRank[pc'] > StageRank[pc]]_vars
    /\ []DataForward

C23_Witness ==
    /\ Done
    /\ calls.inference = 1
    /\ experienceYears = 50
    /\ aiArgs.experienceYearsHint = 50
    /\ text # ""

\* C24: the profile the catch block answers with is the fixed fallback
\* profile of the inference client: the same skills, the same five summary
\* lines, and ats_score min(95, max(50, 60 + round(2 * hint)))
C24_SameFallbackProfile ==
    Answered /\ failed # "" =>
        /\ Body["skills"] = ParseFallback(experienceYears)["skills"]
        /\ Body["summary"] = ParseFallback(experienceYears)["summary"]
        /\ Body["ats_score"] = Num(AtsFromYears(experienceYears))

\* the text has, at index i, a run of n or more newlines with a character
\* that is not white space somewhere before it and somewhere after it
NewlineRunAt(s, i, n) ==
    /\ i + n - 1 <= Len(s)
    /\ \A k \in i..(i + n - 1) : Ch(s, k) \in Newline
    /\ \E j \in 1..(i - 1) : Ch(s, j) \notin WhiteSpace \cup Nbsp \cup TabCr
    /\ \E j \in (i + n)..Len(s) : Ch(s, j) \notin WhiteSpace \cup Nbsp \cup TabCr

\* C25: a run of three or more newlines becomes exactly two newlines, so a
\* paragraph break of the input is a double newline of the normalized text
C25_ParagraphBreakKept ==
    cleanPc # "input" =>
        /\ \A i \in 1..Len(cleanOut) : ~NewlineRunAt(cleanOut, i, 3)
        /\ ((\E i \in 1..Len(cleanIn) : NewlineRunAt(cleanIn, i, 3)) =>
                Includes(cleanOut, "\n\n"))

\* C26: when the fetch, the extraction and the inference call all end
\* without an exception the response has ok = true and no error field,
\* whatever keys the object of the inference reply has
C26_OkNotOverridable ==
    Answered /\ failed = "" =>
        /\ Body["ok"] = Bool(TRUE)
        /\ ~Has(Body, "error")

\* the request gives both storagePath and fileUrl
BothSourcesGiven ==
    /\ req.method # "OPTIONS"
    /\ req.body.t = "object"
    /\ Field(req.body, "storagePath") # ""
    /\ Field(req.body, "fileUrl") # ""

\* C29: with both storagePath and fileUrl only the storage download of
\* (bucket or "resumes", storagePath) is made; fileUrl is neither parsed nor
\* fetched, also when the download fails; the file name is fileName if
\* given, otherwise the last segment of storagePath
C29_StoragePathWins ==
    BothSourcesGiven =>
        /\ calls.http = 0
        /\ pc # "fetch"
        /\ (source # NoSource =>
                source = [via |-> "storage",
                          bucket |-> OrElse(Field(req.body, "bucket"), "resumes"),
                          path |-> Field(req.body, "storagePath"),
                          url |-> ""])
        /\ (pc # "start" => calls.storage = (IF env.admin THEN 1 ELSE 0))
        /\ (fetchOutcome = "ok" /\ Field(req.body, "storagePath") = "u1/cv.pdf" =>
                finalFileName = OrElse(Field(req.body, "fileName"), "cv.pdf"))
        /\ (fetchOutcome # "ok" => finalFileName = "")

C29_Witness ==
    /\ BothSourcesGiven
    /\ Field(req.body, "fileUrl") = PlainUrl
    /\ ~Has(req.body.o, "fileName")
    /\ ~Has(req.body.o, "bucket")
    /\ Done
    /\ fetchOutcome = "ok"
    /\ source.bucket = "resumes"
    /\ finalFileName = "cv.pdf"
    /\ calls.http = 0

----------------------------------------------------------------------------
(* Two invocations of the handler in one isolate                           *)

\* lines 256-295: the locals of the invocation that is running.  env is not
\* among them: the admin client and the key are module constants
\* (index.ts:14-21) that every invocation reads and none writes.
Context ==
    [pc |-> pc, req |-> req, source |-> source, fetchOutcome |-> fetchOutcome,
     buffer |-> buffer, contentType |-> contentType,
     finalFileName |-> finalFileName, text |-> text,
     experienceYears |-> experienceYears, aiArgs |-> aiArgs, aiReply |-> aiReply,
     analysis |-> analysis, response |-> response, calls |-> calls,
     failed |-> failed]

\* the locals of an invocation that has just been entered with request r
Fresh(r) ==
    [pc |-> "start", req |-> r, source |-> NoSource, fetchOutcome |-> "",
     buffer |-> NoBuffer, contentType |-> "", finalFileName |-> "", text |-> "",
     experienceYears |-> 0, aiArgs |-> NoArgs, aiReply |-> NoReply,
     analysis |-> Returned(Undefined), response |-> NoResponse, calls |-> NoCalls,
     failed |-> ""]

\* the extracted text kept in a module-level variable instead of the const
\* of line 286: the invocation resumed finds the text of the other one
ResumeSharingText(c) ==
    /\ pc' = c.pc
    /\ req' = c.req
    /\ source' = c.source
    /\ fetchOutcome' = c.fetchOutcome
    /\ buffer' = c.buffer
    /\ contentType' = c.contentType
    /\ finalFileName' = c.finalFileName
    /\ text' = text
    /\ experienceYears' = c.experienceYears
    /\ aiArgs' = c.aiArgs
    /\ aiReply' = c.aiReply
    /\ analysis' = c.analysis
    /\ response' = c.response
    /\ calls' = c.calls
    /\ failed' = c.failed

\* an invocation continues after its await with the locals it had: every
\* one of them is a const or let of the handler's own body
Resume(c) ==
    /\ pc' = c.pc
    /\ req' = c.req
    /\ source' = c.source
    /\ fetchOutcome' = c.fetchOutcome
    /\ buffer' = c.buffer
    /\ contentType' = c.contentType
    /\ finalFileName' = c.finalFileName
    /\ text' = c.text
    /\ experienceYears' = c.experienceYears
    /\ aiArgs' = c.aiArgs
    /\ aiReply' = c.aiReply
    /\ analysis' = c.analysis
    /\ response' = c.response
    /\ calls' = c.calls
    /\ failed' = c.failed

\* the requests of the two invocations: a preflight, a storage path, a plain
\* URL with a file name
PairRequests ==
    {[method |-> "OPTIONS", body |-> Undefined],
     [method |-> "POST", body |-> Obj([storagePath |-> Str("u1/cv.pdf")])],
     [method |-> "POST",
      body |-> Obj([fileUrl |-> Str(PlainUrl), fileName |-> Str("resume.docx")])]}

InitPair ==
    /\ HandlerStart
    /\ req \in PairRequests
    /\ env = [admin |-> TRUE, key |-> TRUE]
    /\ \E r \in PairRequests :
         suspended = [running |-> 1, saved |-> Fresh(r), resumedAt |-> ""]
    /\ CleanIdle
    /\ ExpIdle
    /\ ApplyIdle
    /\ UploadIdle
    /\ RouteIdle

\* The isolate runs one invocation at a time and passes control at an await
\* (lines 256, 268, 274, 278, 286, 293) or at the return: the invocation
\* that was running keeps its locals, the other one continues with its own.
\* Line 290 follows line 286 without an await.  An invocation that is
\* resumed runs to its next await before control passes again.
Switch ==
    /\ suspended.running # 0
    /\ pc # "estimate"
    /\ pc # suspended.resumedAt
    /\ suspended.saved.pc \notin {"done", "suspended"}
    /\ Resume(suspended.saved)
    /\ suspended' = [running |-> 3 - suspended.running, saved |-> Context,
                     resumedAt |-> suspended.saved.pc]
    /\ UNCHANGED <<env, cleanVars, expVars, applyVars, uploadVars, routeVars>>

NextPair ==
    \/ Switch
    \/ Next

SpecPair == InitPair /\ [][NextPair]_vars

\* the locals of invocation i, running or not
StateOf(i) == IF suspended.running = i THEN Context ELSE suspended.saved

\* What one invocation alone makes of each document and reply the pair is
\* given: the text extracted, the estimate and the analysis
PairFileNames == {"cv.pdf", "resume.docx"}

AloneText ==
    [b \in PairBuffers |->
        [f \in PairFileNames |-> [c \in {"", DocxMime} |-> extractText(b, f, c)]]]

PairTexts ==
    {AloneText[b][f][c] : b \in PairBuffers, f \in PairFileNames, c \in {"", DocxMime}}

AloneYears ==
    [t \in PairTexts |-> {computeExperienceYears(t, now) : now \in {DateOf(2026, 10)}}]

AloneAnalysis ==
    [r \in PairReplies |->
        [y \in UNION {AloneYears[t] : t \in PairTexts} |-> analyzeWithAI(r, y)]]

\* what an invocation holds follows from its own request and the replies it
\* received itself, as it does when the invocation runs alone
RunsAsAlone(c) ==
    /\ c.calls.extract = 1 =>
           c.text = AloneText[c.buffer][c.finalFileName][c.contentType]
    /\ c.calls.estimate = 1 =>
           /\ c.text \in PairTexts
           /\ c.experienceYears \in AloneYears[c.text]
    /\ c.aiReply # NoReply =>
           /\ c.analysis = AloneAnalysis[c.aiReply][c.experienceYears]
           /\ c.aiArgs = [resumeText |-> c.text, fileName |-> c.finalFileName,
                          experienceYearsHint |-> c.experienceYears]
    /\ c.pc = "done" /\ c.failed = "" /\ c.req.method # "OPTIONS" =>
           c.response = Response(OkStatus, SuccessPayload(c.analysis.value))
    /\ c.pc = "done" /\ c.failed # "" =>
           /\ c.response.status = CatchStatus
           /\ Without(c.response.body.o, "error") =
                  Without(JsonStringify(CatchPayload("")), "error")

\* C22: two invocations interleaved at their awaits are independent: a step
\* changes the locals of the running invocation only, control passing changes
\* the locals of neither, and what each invocation holds and answers follows
\* from its own request and its own replies as when it runs alone
C22_Independent ==
    /\ [][\A i \in {1, 2} :
            StateOf(i)' # StateOf(i) =>
                suspended.running = i /\ suspended'.running = i]_vars
    /\ [](\A i \in {1, 2} : RunsAsAlone(StateOf(i)))

\* invocation 1 has answered with a profile while invocation 2, suspended at
\* the extraction of another document and resumed there, waits for its own
\* inference reply
C22_Witness ==
    /\ suspended.running = 2
    /\ suspended.resumedAt = "extract"
    /\ pc = "infer"
    /\ suspended.saved.pc = "done"
    /\ suspended.saved.failed = ""
    /\ suspended.saved.req.method = "POST"
    /\ suspended.saved.text # text
    /\ suspended.saved.text # ""
    /\ text # ""

----------------------------------------------------------------------------
(* handleApplyToJob, JobSeekerDashboard.tsx:171-211, run twice at once      *)

Calls == {1, 2}

\* useAuth's user: nobody signed in, or the applicant
Applicants == {"", "u1", "u2"}

Jobs == {"j1", "j2"}

NoToast == [kind |-> "", message |-> ""]

ToastError(message) == [kind |-> "error", message |-> message]

ToastSuccess(message) == [kind |-> "success", message |-> message]

\* the rows of the table for one job and one applicant
Matching(rows, jobId, applicant) ==
    {i \in DOMAIN rows : rows[i].job_id = jobId /\ rows[i].applicant_id = applicant}

\* lines 179-184: select('id').eq(...).eq(...).single() resolves to the row,
\* or to the error PGRST116 when it is not exactly one row
selectSingle(rows, jobId, applicant) ==
    IF Cardinality(Matching(rows, jobId, applicant)) = 1
    THEN [found |-> TRUE, code |-> ""]
    ELSE [found |-> FALSE, code |-> "PGRST116"]

UniqueViolation ==
    "duplicate key value violates unique constraint job_applications_job_id_applicant_id_key"

\* the table without its UNIQUE(job_id, applicant_id) constraint
insertRowUnconstrained(rows, row) == [rows |-> Append(rows, row), error |-> ""]

\* the INSERT of lines 196-202 against the table of the migration (lines
\* 55-65): UNIQUE(job_id, applicant_id) rejects a second row for the pair
insertRow(rows, row) ==
    IF Matching(rows, row.job_id, row.applicant_id) # {}
    THEN [rows |-> rows, error |-> UniqueViolation]
    ELSE [rows |-> Append(rows, row), error |-> ""]

notApplyVars == <<cleanVars, expVars, handlerVars, pairVars, uploadVars, routeVars>>

InitApply ==
    /\ job_applications = <<>>
    /\ applying \in [Calls -> [pc : {"idle"}, user : Applicants, jobId : Jobs,
                               seen : {""}, toast : {NoToast}]]
    /\ CleanIdle
    /\ ExpIdle
    /\ HandlerIdle
    /\ PairIdle
    /\ UploadIdle
    /\ RouteIdle

\* lines 172-184: the click, the check for a user and the lookup sent
Apply(c) ==
    /\ applying[c].pc = "idle"
    /\ applying' =
           [applying EXCEPT ![c] =
               IF @.user = ""
               THEN [@ EXCEPT !.pc = "done",
                              !.toast = ToastError("Please log in to apply for jobs")]
               ELSE [@ EXCEPT !.pc = "lookup"]]
    /\ UNCHANGED <<job_applications, notApplyVars>>

\* lines 184-202: the lookup resolves; another error than PGRST116 is thrown
\* to the catch block, a row found ends the call, otherwise the insert is sent
LookupReturns(c) ==
    /\ applying[c].pc = "lookup"
    /\ \E transport \in {"", "Failed to fetch"} :
         LET r == selectSingle(job_applications, applying[c].jobId, applying[c].user)
         IN  applying' =
                 [applying EXCEPT ![c] =
                     IF transport # ""
                     THEN [@ EXCEPT !.pc = "done", !.seen = "error",
                                    !.toast = ToastError(transport)]
                     ELSE IF r.found
                     THEN [@ EXCEPT !.pc = "done", !.seen = "found",
                                    !.toast =
                                        ToastError("You have already applied to this job")]
                     ELSE [@ EXCEPT !.pc = "insert", !.seen = "none"]]
    /\ UNCHANGED <<job_applications, notApplyVars>>

\* lines 196-210: the insert resolves: an error is thrown to the catch block
\* and shown, otherwise the success toast
InsertReturns(c) ==
    /\ applying[c].pc = "insert"
    /\ \E transport \in {"", "Failed to fetch"} :
         LET r == insertRow(job_applications,
                            [job_id |-> applying[c].jobId,
                             applicant_id |-> applying[c].user,
                             status |-> "pending"])
             error == IF transport # "" THEN transport ELSE r.error
         IN  /\ job_applications' = (IF transport # "" THEN job_applications ELSE r.rows)
             /\ applying' =
                    [applying EXCEPT ![c] =
                        [@ EXCEPT !.pc = "done",
                                  !.toast =
                                      IF error # "" THEN ToastError(error)
                                      ELSE ToastSuccess("Application submitted successfully!")]]
    /\ UNCHANGED notApplyVars

NextApply ==
    \/ \E c \in Calls : Apply(c)
    \/ \E c \in Calls : LookupReturns(c)
    \/ \E c \in Calls : InsertReturns(c)

SpecApply == InitApply /\ [][NextApply]_vars

\* two calls for the same job by the same signed-in applicant
SamePair(c, d) ==
    /\ c # d
    /\ applying[c].user # ""
    /\ applying[c].user = applying[d].user
    /\ applying[c].jobId = applying[d].jobId

\* C27: two calls for one job and one applicant leave at most one row for the
\* pair under every interleaving; when both passed the lookup and both
\* inserts reached the table, one is stored and the other is rejected by the
\* UNIQUE constraint and shown as an error
C27_AtMostOneRow ==
    /\ \A j \in Jobs, a \in Applicants :
           Cardinality(Matching(job_applications, j, a)) <= 1
    /\ \A c \in Calls, d \in Calls :
           /\ SamePair(c, d)
           /\ applying[c].pc = "done" /\ applying[d].pc = "done"
           /\ applying[c].seen = "none" /\ applying[d].seen = "none"
           /\ applying[c].toast.message # "Failed to fetch"
           /\ applying[d].toast.message # "Failed to fetch"
           => /\ Cardinality(Matching(job_applications, applying[c].jobId,
                                      applying[c].user)) = 1
              /\ {applying[c].toast, applying[d].toast} =
                     {ToastSuccess("Application submitted successfully!"),
                      ToastError(UniqueViolation)}

\* both calls passed the lookup before either inserted; one row is stored,
\* call 2 was told of success and call 1 of the constraint
C27_Witness ==
    /\ applying # <<>>
    /\ SamePair(1, 2)
    /\ applying[1].seen = "none" /\ applying[2].seen = "none"
    /\ applying[1].toast = ToastError(UniqueViolation)
    /\ applying[2].toast = ToastSuccess("Application submitted successfully!")
    /\ Len(job_applications) = 1

----------------------------------------------------------------------------
(* handleFileUpload, JobSeekerDashboard.tsx:91-169                          *)

NoFile == [name |-> "", size |-> 0, type |-> ""]

\* line 96: 5 * 1024 * 1024
MaxFileSize == 5242880

\* lines 102-106
allowedTypes == {"application/pdf", "application/msword", DocxMime}

\* event.target.files?.[0]
ChosenFiles ==
    {NoFile}
        \cup {[name |-> "cv.pdf", size |-> n, type |-> t] :
                 n \in {1000, MaxFileSize, MaxFileSize + 1},
                 t \in {"application/pdf", "application/msword", DocxMime,
                        "text/plain"}}

\* what analyze-resume answers with status 200: the profile of line 295 or
\* the fallback profile of the catch block (index.ts:296-317)
AnalysisBodies ==
    {Response(OkStatus,
              SuccessPayload(analyzeWithAI([kind |-> "ok", status |-> "200 OK",
                                            content |-> Content(FALSE, v)], 35).value)).body :
        v \in {Obj(GoodProfile), Obj(EmptyObject)}}
        \cup {Response(CatchStatus, CatchPayload(m)).body :
                 m \in {"Storage download error: Object not found",
                        "OPENAI_API_KEY not configured"}}

\* a || b
OrDefault(a, b) == IF Truthy(a) THEN a ELSE b

\* lines 143-156: the row built from the analysis
ResumeRow(user, file, url, data) ==
    [user_id          |-> user,
     file_name        |-> file.name,
     file_url         |-> url,
     file_size        |-> file.size,
     skills           |-> OrDefault(Get(data.o, "skills"), Arr(<<>>)),
     experience_years |-> OrDefault(Get(data.o, "experience_years"), Num(0)),
     job_role         |-> OrDefault(Get(data.o, "job_role"), Str("")),
     ats_score        |-> OrDefault(Get(data.o, "ats_score"), Num(0)),
     summary          |-> OrDefault(Get(data.o, "summary"), Str("")),
     recommendations  |-> OrDefault(Get(data.o, "recommendations"), Arr(<<>>)),
     missing_skills   |-> OrDefault(Get(data.o, "missing_skills"), Arr(<<>>)),
     strength_areas   |-> OrDefault(Get(data.o, "strength_areas"), Arr(<<>>))]

\* line 139 also refusing an analysis whose ok flag is false
AnalysisThrowsUnlessOk(error, data) ==
    error # "" \/ Get(data.o, "ok") = Bool(FALSE)

\* line 139: if (analysisError) throw analysisError
AnalysisThrows(error, data) == error # ""

InitUpload ==
    /\ \E u \in {"", "u1"}, f \in ChosenFiles :
         upload = [pc |-> "ready", user |-> u, file |-> f,
                   uploading |-> FALSE, analyzing |-> FALSE,
                   uploaded |-> "", invoked |-> "", data |-> Undefined,
                   insertSent |-> FALSE, inserted |-> "", toast |-> NoToast,
                   fetchResumes |-> 0]
    /\ resumes = <<>>
    /\ CleanIdle
    /\ ExpIdle
    /\ HandlerIdle
    /\ PairIdle
    /\ ApplyIdle
    /\ RouteIdle

notUploadVars == <<cleanVars, expVars, handlerVars, pairVars, applyVars, routeVars>>

\* lines 157-168: the catch block and the finally block
UploadCatch(message) ==
    [upload EXCEPT !.pc = "done",
                   !.toast = ToastError(OrElse(message, "Failed to upload resume")),
                   !.uploading = FALSE, !.analyzing = FALSE]

\* lines 92-125: the change event: the checks, the two flags, the upload sent
ChooseFile ==
    /\ upload.pc = "ready"
    /\ upload' =
           IF upload.file = NoFile \/ upload.user = ""
           THEN [upload EXCEPT !.pc = "done"]
           ELSE IF upload.file.size > MaxFileSize
           THEN [upload EXCEPT !.pc = "done",
                               !.toast = ToastError("File size must be less than 5MB")]
           ELSE IF upload.file.type \notin allowedTypes
           THEN [upload EXCEPT !.pc = "done",
                               !.toast =
                                   ToastError("Only PDF, DOC, and DOCX files are allowed")]
           ELSE [upload EXCEPT !.pc = "upload", !.uploading = TRUE, !.analyzing = TRUE]
    /\ UNCHANGED <<resumes, notUploadVars>>

\* lines 121-137: the upload resolves; without an error the function is invoked
UploadReturns ==
    /\ upload.pc = "upload"
    /\ \E error \in {"", "The resource already exists"} :
         upload' =
             IF error # ""
             THEN [UploadCatch(error) EXCEPT !.uploaded = "error"]
             ELSE [upload EXCEPT !.pc = "analyze", !.uploaded = "ok"]
    /\ UNCHANGED <<resumes, notUploadVars>>

\* lines 130-156: the invocation resolves; without an error the row is sent
InvokeReturns ==
    /\ upload.pc = "analyze"
    /\ \E error \in {"", "Failed to send a request to the Edge Function"},
          data \in AnalysisBodies :
         /\ error # "" => data = CHOOSE d \in AnalysisBodies : TRUE
         /\ upload' =
                IF AnalysisThrows(error, data)
                THEN [UploadCatch(error) EXCEPT
                          !.invoked = IF error # "" THEN "error" ELSE "ok",
                          !.data = IF error # "" THEN Null ELSE data]
                ELSE [upload EXCEPT !.pc = "insert", !.invoked = "ok",
                                    !.data = data, !.insertSent = TRUE]
    /\ UNCHANGED <<resumes, notUploadVars>>

\* lines 143-168: the insert resolves: the success toast and the list
\* fetched again, or the catch block; then the finally block
InsertResumeReturns ==
    /\ upload.pc = "insert"
    /\ \E error \in {"", "new row violates row-level security policy"} :
         IF error # ""
         THEN /\ upload' = [UploadCatch(error) EXCEPT !.inserted = "error"]
              /\ UNCHANGED resumes
         ELSE /\ resumes' =
                     Append(resumes,
                            ResumeRow(upload.user, upload.file,
                                      "https://proj.supabase.co/storage/v1/object/public/resumes/"
                                          \o upload.user \o "/1-" \o upload.file.name,
                                      upload.data))
              /\ upload' =
                     [upload EXCEPT
                         !.pc = "done", !.inserted = "ok",
                         !.toast =
                             ToastSuccess("Resume uploaded and analyzed successfully!"),
                         !.fetchResumes = @ + 1,
                         !.uploading = FALSE, !.analyzing = FALSE]
    /\ UNCHANGED notUploadVars

NextUpload ==
    \/ ChooseFile
    \/ UploadReturns
    \/ InvokeReturns
    \/ InsertResumeReturns

SpecUpload == InitUpload /\ [][NextUpload]_vars

\* C28: the insert is sent exactly when the upload and the invocation both
\* returned without a transport error, whatever the ok flag of the analysis;
\* the row holds the analysis as answered, an ok=false fallback profile
\* included, and is reported as a success; the two flags are false after
\* every attempt
C28_InsertIffBothReturned ==
    upload.pc # "idle" =>
        /\ upload.insertSent <=> (upload.uploaded = "ok" /\ upload.invoked = "ok")
        /\ Len(resumes) = (IF upload.inserted = "ok" THEN 1 ELSE 0)
        /\ upload.inserted # "" => upload.insertSent
        /\ upload.inserted = "ok" =>
               /\ resumes[1].job_role = OrDefault(Get(upload.data.o, "job_role"), Str(""))
               /\ resumes[1].skills = OrDefault(Get(upload.data.o, "skills"), Arr(<<>>))
               /\ resumes[1].ats_score = OrDefault(Get(upload.data.o, "ats_score"), Num(0))
               /\ upload.toast = ToastSuccess("Resume uploaded and analyzed successfully!")
        /\ upload.pc \in {"ready", "done"} => ~upload.uploading /\ ~upload.analyzing

\* the function answered ok=false with the fallback profile; the row holds
\* that profile and the success toast is shown
C28_Witness ==
    /\ upload.pc = "done"
    /\ upload.inserted = "ok"
    /\ Get(upload.data.o, "ok") = Bool(FALSE)
    /\ resumes[1].job_role = Str("Professional")
    /\ resumes[1].ats_score = Num(700)
    /\ upload.toast.kind = "success"
    /\ ~upload.uploading
    /\ ~upload.analyzing

----------------------------------------------------------------------------
(* ProtectedRoute (unnamed/part_000:10-56) under the routes of App.tsx      *)

\* App.tsx:34-57: the routes wrapped in ProtectedRoute and what they require
requiredUserType ==
    [p \in {"/dashboard/jobseeker", "/dashboard/company", "/dashboard/hr"} |->
        CASE p = "/dashboard/jobseeker" -> "job_seeker"
          [] p = "/dashboard/company"   -> "company"
          [] p = "/dashboard/hr"        -> "hr"]

\* App.tsx:31-33: routes that render their page directly
OpenPaths == {"/", "/login", "/register"}

Paths == DOMAIN requiredUserType \cup OpenPaths

\* line 11: what useAuth gives: still loading; nobody signed in; a user
\* whose profile is not there; a user with a profile of one of the types
AuthStates ==
    {[loading |-> TRUE, user |-> "", user_type |-> ""],
     [loading |-> FALSE, user |-> "", user_type |-> ""]}
        \cup {[loading |-> FALSE, user |-> "u1", user_type |-> t] :
                 t \in {"", "job_seeker", "company", "hr"}}

\* lines 40-55: what the component returns; requiredUserType is not read
Render(auth, required) ==
    IF auth.loading THEN "loading"
    ELSE IF auth.user = "" THEN "nothing"
    ELSE "children"

\* lines 14-38: where the effect navigates, "" when it does not
Redirect(auth, required) ==
    IF auth.loading THEN ""
    ELSE IF auth.user = "" THEN "/login"
    ELSE IF required # "" /\ auth.user_type # required
    THEN CASE auth.user_type = "job_seeker" -> "/dashboard/jobseeker"
           [] auth.user_type = "company"    -> "/dashboard/company"
           [] auth.user_type = "hr"         -> "/dashboard/hr"
           [] OTHER                         -> "/"
    ELSE ""

\* the dashboard of a user type
Dashboards == {requiredUserType[p] :> p : p \in DOMAIN requiredUserType}

\* the element of the route at path p is rendered: ProtectedRoute with its
\* effect to run after the commit, or the page itself.  navigated is where
\* the effect that led here navigated to, from the location before this one
\* in the history of BrowserRouter (App.tsx:29)
Mount(p, auth, navigated, from) ==
    IF p \in DOMAIN requiredUserType
    THEN [pc |-> "mounted", path |-> p, auth |-> auth,
          view |-> Render(auth, requiredUserType[p]), effect |-> TRUE,
          navigated |-> navigated, from |-> from]
    ELSE [pc |-> "mounted", path |-> p, auth |-> auth, view |-> "page",
          effect |-> FALSE, navigated |-> navigated, from |-> from]

InitRoute ==
    /\ \E p \in Paths :
         route = Mount(p, [loading |-> TRUE, user |-> "", user_type |-> ""], "", "")
    /\ CleanIdle
    /\ ExpIdle
    /\ HandlerIdle
    /\ PairIdle
    /\ ApplyIdle
    /\ UploadIdle

notRouteVars == <<cleanVars, expVars, handlerVars, pairVars, applyVars, uploadVars>>

\* useAuth's state changes: the component renders again and its effect,
\* whose dependencies changed (line 38), is run after the commit
AuthChange ==
    /\ \E auth \in AuthStates :
         /\ auth # route.auth
         /\ ~auth.loading
         /\ route' = Mount(route.path, auth, "", route.from)
    /\ UNCHANGED notRouteVars

\* lines 14-38: the effect runs; navigate() renders the route it names
RunEffect ==
    /\ route.effect
    /\ LET to == Redirect(route.auth, requiredUserType[route.path])
       IN  route' = IF to = ""
                    THEN [route EXCEPT !.effect = FALSE]
                    ELSE Mount(to, route.auth, to, route.path)
    /\ UNCHANGED notRouteVars

\* the address bar or a link leads to another route
Visit ==
    /\ \E p \in Paths :
         /\ p # route.path
         /\ route' = Mount(p, route.auth, "", route.path)
    /\ UNCHANGED notRouteVars

NextRoute ==
    \/ AuthChange
    \/ RunEffect
    \/ Visit

SpecRoute == InitRoute /\ [][NextRoute]_vars

\* C30: ProtectedRoute shows its children only when loading has finished, a
\* user is signed in and the profile's user_type is the required one;
\* otherwise it shows the loading view or nothing, and it navigates only to
\* /login or to the dashboard of the user's own type
C30_ChildrenOnlyForRequiredType ==
    /\ route.path \in DOMAIN requiredUserType =>
           /\ route.view \in {"loading", "nothing", "children"}
           /\ route.view = "children" =>
                  /\ ~route.auth.loading
                  /\ route.auth.user # ""
                  /\ route.auth.user_type = requiredUserType[route.path]
    /\ route.navigated \notin {"", "/login"} =>
           /\ route.auth.user_type \in DOMAIN Dashboards
           /\ route.navigated = Dashboards[route.auth.user_type]

====
